---- MODULE Spec2Model ----
(***************************************************************************)
(* Model of the dataset loader of the Samhita Sync EDA tool                *)
(* (src/app.py: load_data, optimize_memory_usage).                         *)
(*                                                                         *)
(* Bytes are integers 0..255, text is a sequence of code points, a file    *)
(* name is a sequence of one-character strings.  The pandas readers the    *)
(* loader calls are modelled by what they do on a small byte alphabet.     *)
(***************************************************************************)
EXTENDS Integers, Sequences, FiniteSets, TLC

(***************************************************************************)
(* Bounds                                                                  *)
(***************************************************************************)
\* longest byte content enumerated exhaustively over ByteAlphabet
MaxLen == 1
\* most passes of optimize_memory_usage chained in SpecPass
MaxPasses == 2
\* most rows and columns of the tables SpecPass starts from
MaxRows == 3
MaxCols == 1
\* most button presses of the editor in one session of SpecFE
MaxEdits == 2
\* most runs of the script of main.py in one session of SpecLogin
MaxEvents == 5

(***************************************************************************)
(* Generic helpers                                                         *)
(***************************************************************************)
Range(s) == {s[i] : i \in 1..Len(s)}

Max2(a, b) == IF a >= b THEN a ELSE b

\* the sequences over S of length at most n
SeqsUpTo(S, n) == UNION {[1..k -> S] : k \in 0..n}

\* s[from..], empty when from is past the end
Drop(s, from) == IF from > Len(s) THEN <<>> ELSE SubSeq(s, from, Len(s))

\* s[1..n], the whole of s when it is shorter
Take(s, n) == IF n >= Len(s) THEN s ELSE SubSeq(s, 1, n)

\* first index of x in s, 0 when absent
IndexOf(s, x) ==
    IF \E i \in 1..Len(s) : s[i] = x
    THEN CHOOSE i \in 1..Len(s) : s[i] = x /\ \A j \in 1..(i - 1) : s[j] # x
    ELSE 0

\* last index of x in s, 0 when absent
LastIndexOf(s, x) ==
    IF \E i \in 1..Len(s) : s[i] = x
    THEN CHOOSE i \in 1..Len(s) : s[i] = x /\ \A j \in (i + 1)..Len(s) : s[j] # x
    ELSE 0

\* str.split(sep) on a sequence: the pieces between occurrences of sep
RECURSIVE Split(_, _)
Split(s, sep) ==
    LET i == IndexOf(s, sep)
    IN  IF i = 0 THEN <<s>>
        ELSE <<SubSeq(s, 1, i - 1)>> \o Split(Drop(s, i + 1), sep)

(***************************************************************************)
(* File names: str.lower() and split('.')[-1]  (app.py line 81)            *)
(***************************************************************************)
UpperLetters == <<"A", "B", "C", "D", "E", "F", "G", "H", "I", "J", "K", "L", "M",
                  "N", "O", "P", "Q", "R", "S", "T", "U", "V", "W", "X", "Y", "Z">>
LowerLetters == <<"a", "b", "c", "d", "e", "f", "g", "h", "i", "j", "k", "l", "m",
                  "n", "o", "p", "q", "r", "s", "t", "u", "v", "w", "x", "y", "z">>

LowerChar(c) ==
    IF IndexOf(UpperLetters, c) # 0 THEN LowerLetters[IndexOf(UpperLetters, c)] ELSE c

\* the name used as it is, case kept
LowerIdentity(name) == name

Lower(name) == [i \in 1..Len(name) |-> LowerChar(name[i])]

\* the piece before the first dot taken instead of the one after the last
FileExtensionFirstPiece(name) ==
    LET parts == Split(Lower(name), ".") IN parts[1]

\* file_name.lower().split('.')[-1]
FileExtension(name) ==
    LET parts == Split(Lower(name), ".") IN parts[Len(parts)]

(***************************************************************************)
(* Codecs                                                                  *)
(***************************************************************************)
\* length of the UTF-8 sequence a lead byte announces, 0 for a byte that
\* cannot start a sequence (continuation bytes, C0, C1, F5..FF)
Utf8SeqLen(b) ==
    IF b < 128 THEN 1
    ELSE IF b >= 194 /\ b <= 223 THEN 2
    ELSE IF b >= 224 /\ b <= 239 THEN 3
    ELSE IF b >= 240 /\ b <= 244 THEN 4
    ELSE 0

\* is b acceptable as byte number k (k >= 2) of the sequence led by lead
Utf8ContOk(lead, k, b) ==
    /\ b >= 128 /\ b <= 191
    /\ (k = 2 /\ lead = 224) => b >= 160
    /\ (k = 2 /\ lead = 237) => b <= 159
    /\ (k = 2 /\ lead = 240) => b >= 144
    /\ (k = 2 /\ lead = 244) => b <= 143

\* number of bytes from position i on that form a valid (possibly
\* incomplete) start of one UTF-8 sequence
RECURSIVE Utf8Run(_, _, _)
Utf8Run(bytes, i, k) ==
    IF /\ k < Utf8SeqLen(bytes[i])
       /\ i + k <= Len(bytes)
       /\ Utf8ContOk(bytes[i], k + 1, bytes[i + k])
    THEN Utf8Run(bytes, i, k + 1)
    ELSE k

Utf8CodePoint(bytes, i, n) ==
    IF n = 1 THEN bytes[i]
    ELSE IF n = 2 THEN (bytes[i] - 192) * 64 + (bytes[i + 1] - 128)
    ELSE IF n = 3 THEN (bytes[i] - 224) * 4096 + (bytes[i + 1] - 128) * 64
                       + (bytes[i + 2] - 128)
    ELSE (bytes[i] - 240) * 262144 + (bytes[i + 1] - 128) * 4096
         + (bytes[i + 2] - 128) * 64 + (bytes[i + 3] - 128)

\* the position after the run of ASCII bytes that starts at position i
Utf8AsciiEnd(bytes, i) ==
    LET high == {k \in i..Len(bytes) : bytes[k] >= 128}
    IN  IF high = {} THEN Len(bytes) + 1
        ELSE CHOOSE k \in high : \A m \in high : k <= m

\* bytes.decode('utf-8', errors=...) from position i on.  strict: a bad
\* sequence is a fault.  ignore: the bad bytes are dropped and decoding
\* resumes after them.  A run of ASCII bytes decodes to itself.
RECURSIVE Utf8From(_, _, _)
Utf8From(bytes, i, strict) ==
    IF i > Len(bytes) THEN [ok |-> TRUE, text |-> <<>>]
    ELSE IF bytes[i] < 128
    THEN LET e == Utf8AsciiEnd(bytes, i)
             rest == Utf8From(bytes, e, strict)
         IN  [ok |-> rest.ok, text |-> SubSeq(bytes, i, e - 1) \o rest.text]
    ELSE LET n == Utf8SeqLen(bytes[i])
             k == IF n = 0 THEN 0 ELSE Utf8Run(bytes, i, 1)
         IN  IF n # 0 /\ k = n
             THEN LET rest == Utf8From(bytes, i + n, strict)
                  IN  [ok |-> rest.ok,
                       text |-> <<Utf8CodePoint(bytes, i, n)>> \o rest.text]
             ELSE IF strict THEN [ok |-> FALSE, text |-> <<>>]
             ELSE Utf8From(bytes, i + Max2(k, 1), strict)

\* the code points of bytes 0x80..0x9F under Windows-1252; 0 marks the five
\* bytes the codec leaves undefined (0x81, 0x8D, 0x8F, 0x90, 0x9D)
Cp1252High ==
    <<8364, 0, 8218, 402, 8222, 8230, 8224, 8225, 710, 8240, 352, 8249, 338, 0, 381, 0,
      0, 8216, 8217, 8220, 8221, 8226, 8211, 8212, 732, 8482, 353, 8250, 339, 0, 382, 376>>

Cp1252Char(b) == IF b >= 128 /\ b <= 159 THEN Cp1252High[b - 127] ELSE b

\* strict decoding of a byte sequence under one of the encodings of line 87
Decode(bytes, enc) ==
    IF enc = "utf-8" THEN Utf8From(bytes, 1, TRUE)
    ELSE IF enc = "cp1252"
    THEN IF \E i \in 1..Len(bytes) : Cp1252Char(bytes[i]) = 0
         THEN [ok |-> FALSE, text |-> <<>>]
         ELSE [ok |-> TRUE, text |-> [i \in 1..Len(bytes) |-> Cp1252Char(bytes[i])]]
    ELSE \* latin-1 and iso-8859-1 are one codec: every byte is its code point
         [ok |-> TRUE, text |-> bytes]

\* bytes.decode('utf-8', errors='ignore')
DecodeIgnore(bytes) == Utf8From(bytes, 1, FALSE).text

(***************************************************************************)
(* Tables (pandas DataFrame)                                               *)
(*                                                                         *)
(* A cell is a record of one shape for every kind of value:                *)
(*   int   : the integer hi * 2^31 + lo, 0 <= lo < 2^31                    *)
(*   float : hi fixed-point units, FloatOne units to 1.0                   *)
(*   str   : the code points s                                             *)
(*   nan   : a missing value                                               *)
(***************************************************************************)
IntV(hi, lo) == [kind |-> "int", hi |-> hi, lo |-> lo, s |-> <<>>]
FloatV(u) == [kind |-> "float", hi |-> u, lo |-> 0, s |-> <<>>]
StrV(t) == [kind |-> "str", hi |-> 0, lo |-> 0, s |-> t]
NaN == [kind |-> "nan", hi |-> 0, lo |-> 0, s |-> <<>>]

Column(name, dtype, vals) == [name |-> name, dtype |-> dtype, vals |-> vals]

DataFrame(nrows, cols) == [kind |-> "DataFrame", nrows |-> nrows, cols |-> cols]

\* Python's None, as a value of the same shape
None == [kind |-> "None", nrows |-> 0, cols |-> <<>>]

\* an unpickled object that is not a DataFrame
OtherObject == [kind |-> "dict", nrows |-> 0, cols |-> <<>>]

IsTable(x) == x.kind = "DataFrame"

\* a raised exception: its class and str(e)
Exc(cls, msg) == [cls |-> cls, msg |-> msg]
NoExc == Exc("", "")

\* the result of a call: a value, or an exception raised
Returned(v) == [ok |-> TRUE, df |-> v, exc |-> NoExc]
Raised(cls, msg) == [ok |-> FALSE, df |-> None, exc |-> Exc(cls, msg)]

(***************************************************************************)
(* pd.read_csv(file_obj, encoding=enc, sep=sep, low_memory=False)          *)
(***************************************************************************)
TAB == 9
LF == 10
COMMA == 44
SEMICOLON == 59
PIPE == 124

\* a line the tokenizer skips: empty, or only tabs when tab is not the separator
IsBlankLine(line, sep) == \A i \in 1..Len(line) : line[i] = TAB /\ sep # TAB

\* the cell with leading and trailing tabs removed (integer conversion skips them)
RECURSIVE StripTabs(_)
StripTabs(t) ==
    IF t = <<>> THEN t
    ELSE IF t[1] = TAB THEN StripTabs(Drop(t, 2))
    ELSE IF t[Len(t)] = TAB THEN StripTabs(SubSeq(t, 1, Len(t) - 1))
    ELSE t

IsIntText(t) ==
    LET u == StripTabs(t)
    IN  u # <<>> /\ \A i \in 1..Len(u) : u[i] >= 48 /\ u[i] <= 57

RECURSIVE DecimalValue(_)
DecimalValue(u) ==
    IF u = <<>> THEN 0
    ELSE 10 * DecimalValue(SubSeq(u, 1, Len(u) - 1)) + (u[Len(u)] - 48)

\* units of the fixed-point float model that make 1.0
FloatOne == 4

\* the column built from the raw cell texts of one field position; an empty
\* cell, or one missing from a short row, is NaN
InferColumn(name, cells) ==
    LET present == {i \in 1..Len(cells) : cells[i] # <<>>}
        allInt == \A i \in present : IsIntText(cells[i])
    IN  IF Len(cells) = 0 THEN Column(name, "object", <<>>)
        ELSE IF allInt /\ present = 1..Len(cells)
        THEN Column(name, "int64",
                    [i \in 1..Len(cells) |-> IntV(0, DecimalValue(StripTabs(cells[i])))])
        ELSE IF allInt
        THEN Column(name, "float64",
                    [i \in 1..Len(cells) |->
                        IF i \in present
                        THEN FloatV(FloatOne * DecimalValue(StripTabs(cells[i])))
                        ELSE NaN])
        ELSE Column(name, "object",
                    [i \in 1..Len(cells) |->
                        IF i \in present THEN StrV(cells[i]) ELSE NaN])

\* "Unnamed: "
UnnamedPrefix == <<85, 110, 110, 97, 109, 101, 100, 58, 32>>

\* the column names made from the header fields: an empty field is named
\* "Unnamed: i", a repeated name gets ".k" appended
HeaderNames(fields) ==
    LET raw == [i \in 1..Len(fields) |->
                   IF fields[i] = <<>> THEN UnnamedPrefix \o <<48 + (i - 1)>>
                   ELSE fields[i]]
        seen(i) == Cardinality({j \in 1..(i - 1) : raw[j] = raw[i]})
    IN  [i \in 1..Len(fields) |->
            IF seen(i) = 0 THEN raw[i] ELSE raw[i] \o <<46, 48 + seen(i)>>]

\* the non-blank lines of the text
TextLines(text, sep) ==
    SelectSeq(Split(text, LF), LAMBDA line : ~IsBlankLine(line, sep))

ReadCsv(bytes, enc, sep) ==
    LET dec == Decode(bytes, enc)
        lines == TextLines(dec.text, sep)
        header == Split(lines[1], sep)
        nrows == Len(lines) - 1
        row(r) == Split(lines[r + 1], sep)
        \* field count of the table: the first data row may be wider than the
        \* header (its leading fields become the index)
        width == IF nrows = 0 THEN Len(header) ELSE Max2(Len(header), Len(row(1)))
        lead == width - Len(header)
        cell(r, c) == IF lead + c <= Len(row(r)) THEN row(r)[lead + c] ELSE <<>>
        names == HeaderNames(header)
    IN  IF ~dec.ok
        THEN Raised("UnicodeDecodeError", "codec can't decode byte")
        ELSE IF Len(lines) = 0
        THEN Raised("EmptyDataError", "No columns to parse from file")
        ELSE IF \E r \in 2..nrows : Len(row(r)) > width
        THEN Raised("ParserError", "Error tokenizing data")
        ELSE Returned(DataFrame(nrows,
                 [c \in 1..Len(header) |->
                     InferColumn(names[c], [r \in 1..nrows |-> cell(r, c)])]))

(***************************************************************************)
(* optimize_memory_usage  (app.py lines 146-157)                           *)
(***************************************************************************)
\* largest values of the signed widths; Int32Max is also the largest lo
Int8Max == 127
Int16Max == 32767
Int32Max == 2147483647

WidthMax(w) == IF w = 8 THEN Int8Max ELSE IF w = 16 THEN Int16Max ELSE Int32Max

\* does the integer cell v lie in the range of the signed width w
FitsWidth(v, w) ==
    \/ w = 64
    \/ v.hi = 0 /\ v.lo <= WidthMax(w)
    \/ v.hi = -1 /\ v.lo >= Int32Max - WidthMax(w)

IntDtype(w) ==
    IF w = 8 THEN "int8" ELSE IF w = 16 THEN "int16"
    ELSE IF w = 32 THEN "int32" ELSE "int64"

DtypeWidth(dtype) ==
    IF dtype = "int8" THEN 8 ELSE IF dtype = "int16" THEN 16
    ELSE IF dtype = "int32" THEN 32 ELSE 64

\* one width narrower than the column's, when the values allow it
DowncastIntegerOneStep(col) ==
    LET w == DtypeWidth(col.dtype) \div 2
    IN  IF w >= 8 /\ \A i \in 1..Len(col.vals) : FitsWidth(col.vals[i], w)
        THEN Column(col.name, IntDtype(w), col.vals)
        ELSE col

\* pd.to_numeric(col, downcast='integer'): the first of int8, int16, int32,
\* int64, no wider than the column, that holds every value
DowncastInteger(col) ==
    LET fits(w) == /\ w <= DtypeWidth(col.dtype)
                   /\ \A i \in 1..Len(col.vals) : FitsWidth(col.vals[i], w)
        w == IF fits(8) THEN 8 ELSE IF fits(16) THEN 16
             ELSE IF fits(32) THEN 32 ELSE DtypeWidth(col.dtype)
    IN  Column(col.name, IntDtype(w), col.vals)

\* spacing, in units, of the values float32 represents, and the absolute
\* tolerance the downcast accepts
Float32Grid == 4
FloatAtol == 1

\* astype(float32): the nearest representable value
RoundFloat32(u) == ((u + Float32Grid \div 2) \div Float32Grid) * Float32Grid

AbsDiff(a, b) == IF a >= b THEN a - b ELSE b - a

CastFloat32(v) == IF v.kind = "float" THEN FloatV(RoundFloat32(v.hi)) ELSE v

\* pd.to_numeric(col, downcast='float'): float32 when every value survives
\* the cast within the tolerance (NaN equals NaN), else unchanged
DowncastFloat(col) ==
    LET cast == [i \in 1..Len(col.vals) |-> CastFloat32(col.vals[i])]
        close == \A i \in 1..Len(col.vals) :
                    AbsDiff(cast[i].hi, col.vals[i].hi) <= FloatAtol
    IN  IF col.dtype = "float32" THEN col
        ELSE IF close THEN Column(col.name, "float32", cast)
        ELSE col

\* df[col].nunique(): distinct values, missing ones not counted
NUnique(col) == Cardinality({v \in Range(col.vals) : v.kind # "nan"})

\* a column of exactly half distinct values converted too
ShouldCategorizeAtHalf(num_unique, num_total) == 2 * num_unique <= num_total

\* line 155: num_unique / num_total < 0.5, for num_total > 0
ShouldCategorize(num_unique, num_total) == 2 * num_unique < num_total

OptimizeColumn(col) ==
    IF col.dtype \in {"float64", "float32"} THEN DowncastFloat(col)
    ELSE IF col.dtype \in {"int32", "int64"} THEN DowncastInteger(col)
    ELSE IF col.dtype = "object" /\ ShouldCategorize(NUnique(col), Len(col.vals))
    THEN Column(col.name, "category", col.vals)
    ELSE col

\* the whole pass: a table, or the exception it raises
optimize_memory_usage(df) ==
    IF ~IsTable(df)
    THEN Raised("AttributeError", "object has no attribute 'select_dtypes'")
    ELSE IF \E c \in 1..Len(df.cols) :
                df.cols[c].dtype = "object" /\ Len(df.cols[c].vals) = 0
    THEN Raised("ZeroDivisionError", "division by zero")
    ELSE Returned(DataFrame(df.nrows,
             [c \in 1..Len(df.cols) |-> OptimizeColumn(df.cols[c])]))

(***************************************************************************)
(* The binary readers (read_excel, read_json, read_parquet, read_pickle).  *)
(* A well-formed file of a format is its two magic bytes followed by one   *)
(* byte naming the table it holds; anything else is malformed.             *)
(***************************************************************************)
A == <<97>>
B == <<98>>

\* the tables the well-formed binary files hold
LibTables ==
    << DataFrame(2, <<Column(A, "int64", <<IntV(0, 1), IntV(0, 200)>>)>>),
       DataFrame(3, <<Column(A, "int64", <<IntV(1, 0), IntV(0, 5), IntV(-1, 7)>>),
                      Column(B, "object", <<StrV(A), StrV(A), StrV(A)>>)>>),
       DataFrame(2, <<Column(A, "float64", <<FloatV(5), NaN>>),
                      Column(B, "object", <<StrV(A), StrV(B)>>)>>),
       DataFrame(0, <<Column(A, "object", <<>>)>>),
       DataFrame(0, <<Column(A, "int64", <<>>)>>) >>

Magic(reader) ==
    IF reader = "openpyxl" THEN <<80, 75>>
    ELSE IF reader = "xlrd" THEN <<208, 207>>
    ELSE IF reader = "read_json" THEN <<91, 123>>
    ELSE IF reader = "read_parquet" THEN <<80, 65>>
    ELSE <<128, 4>>

MalformedExc(reader) ==
    IF reader = "openpyxl" THEN Exc("BadZipFile", "File is not a zip file")
    ELSE IF reader = "xlrd" THEN Exc("XLRDError", "Unsupported format, or corrupt file")
    ELSE IF reader = "read_json" THEN Exc("ValueError", "Expected object or value")
    ELSE IF reader = "read_parquet" THEN Exc("ArrowInvalid", "Parquet magic bytes not found")
    ELSE Exc("UnpicklingError", "invalid load key")

\* a pickle may hold any object: table number 0 is one that is no DataFrame
ReadBinary(reader, bytes) ==
    IF Len(bytes) = 3 /\ SubSeq(bytes, 1, 2) = Magic(reader)
    THEN IF bytes[3] \in 1..Len(LibTables) THEN Returned(LibTables[bytes[3]])
         ELSE IF bytes[3] = 0 /\ reader = "read_pickle" THEN Returned(OtherObject)
         ELSE Raised(MalformedExc(reader).cls, MalformedExc(reader).msg)
    ELSE Raised(MalformedExc(reader).cls, MalformedExc(reader).msg)

(***************************************************************************)
(* Uploads                                                                 *)
(***************************************************************************)
ByteAlphabet == {TAB, LF, COMMA, SEMICOLON, PIPE, 49, 97, 129, 233}

Readers == {"openpyxl", "xlrd", "read_json", "read_parquet", "read_pickle"}

\* "a;a;a\n1;1;1", "a,a\n", "a\n1\n1\n1", "é" in UTF-8, "a\n1,1\n1,1,1",
\* "a|a\n1|\xe9", "a\n\n", "a\xe9\n1", "a;a\ta\n1;1\t1", "a,a\n1,a\n1,a",
\* "PK" (a truncated workbook), "\xe9\n1,1\n1,1,1"
SampleTexts ==
    { <<233, 10, 49, 44, 49, 10, 49, 44, 49, 44, 49>>,
      <<97, 59, 97, 59, 97, 10, 49, 59, 49, 59, 49>>,
      <<97, 44, 97, 10>>,
      <<97, 10, 49, 10, 49, 10, 49>>,
      <<195, 169>>,
      <<97, 10, 49, 44, 49, 10, 49, 44, 49, 44, 49>>,
      <<97, 124, 97, 10, 49, 124, 233>>,
      <<97, 10, 10>>,
      <<97, 233, 10, 49>>,
      <<97, 59, 97, 9, 97, 10, 49, 59, 49, 9, 49>>,
      <<97, 44, 97, 10, 49, 44, 97, 10, 49, 44, 97>>,
      <<80, 75>> }

Blobs == {Magic(r) \o <<k>> : r \in Readers, k \in 0..Len(LibTables)}

\* n letters "a"
Pad(n) == [i \in 1..n |-> 97]

\* contents longer than the sniffed sample: 1024 letters and then a tab or
\* a semicolon, and a byte that is not UTF-8, 1023 letters and then a tab
LongTexts ==
    { Pad(1024) \o <<TAB, 97>>,
      Pad(1024) \o <<SEMICOLON, 97>>,
      <<233>> \o Pad(1023) \o <<TAB, 97>> }

Contents == SeqsUpTo(ByteAlphabet, MaxLen) \cup SampleTexts \cup LongTexts \cup Blobs

FileNames ==
    { <<"x", ".", "c", "s", "v">>,
      <<"D", "A", "T", "A", ".", "C", "S", "V">>,
      <<"a", ".", "b", ".", "c", "s", "v">>,
      <<"d", "a", "t", "a", ".", "c", "s", "v", ".", "t", "x", "t">>,
      <<"t", ".", "t", "s", "v">>,
      <<"n", ".", "T", "x", "t">>,
      <<"w", ".", "x", "l", "s", "x">>,
      <<"o", ".", "x", "l", "s">>,
      <<"j", ".", "j", "s", "o", "n">>,
      <<"p", ".", "p", "a", "r", "q", "u", "e", "t">>,
      <<"k", ".", "p", "k", "l">>,
      <<"d", ".", "d", "b">>,
      <<"s", ".", "S", "q", "l", "i", "t", "e">>,
      <<"f", ".", "x", "y", "z">>,
      <<"c", "s", "v">>,
      <<"n", "o", "e", "x", "t">>,
      <<"x", ".", "c", "s", "v", ".">>,
      <<"c", "s", "v", ".", "b", "a", "k">> }

(***************************************************************************)
(* State                                                                   *)
(***************************************************************************)
VARIABLES
    file,            \* the upload object: name, bytes and read position
    pc,              \* position of the load_data call
    file_extension,  \* load_data local (line 81)
    file_content,    \* load_data local (line 80)
    obj_pos,         \* read position of file_obj, the BytesIO of line 83
    branch,          \* the branch of the if-chain this call took
    enc_i,           \* index of the csv loop in encodings (line 88)
    df,              \* load_data local
    exc,             \* the exception being raised out of the try body
    ret,             \* what load_data returned to its caller
    shown,           \* st.error / st.info messages of this run
    calls,           \* reader invocations of this call, in order
    prev,            \* what the previous call on this same upload object returned
    handed,          \* the failures handed back so far: returned value and kind
    offered,         \* the file last dropped on the uploader, and its fate
    engineered_df,   \* st.session_state['engineered_df'], None when absent
    loaded_df,       \* SpecFE: the table main passed to feature_engineering
    passed_df,       \* SpecFE: that same object when feature_engineering ended
    fe_shown,        \* SpecFE: st.success / st.error of feature_engineering
    fe_edits,        \* SpecFE: button presses of the editor so far
    passTable,       \* SpecPass: the table the pass is applied to
    passPrev,        \* SpecPass: the table before the latest pass
    passInput,       \* SpecPass: the table before the first pass
    passCount,       \* SpecPass: passes applied
    session_state,   \* SpecLogin: st.session_state of main.py
    page,            \* SpecLogin: what the latest run drew
    app_executed,    \* SpecLogin: the latest run executed the code of app.py
    events,          \* SpecLogin: what started each run so far, in order
    session_before,  \* SpecLogin: st.session_state before the latest run
    hashed           \* SpecLogin: hash_password of each password that can be typed

loaderVars == <<file, pc, file_extension, file_content, obj_pos, branch, enc_i, df, exc,
                ret, shown, calls>>
callVars == <<prev, handed, offered>>
feVars == <<engineered_df, loaded_df, passed_df, fe_shown, fe_edits>>
passVars == <<passTable, passPrev, passInput, passCount>>
loginVars == <<session_state, page, app_executed, events, session_before, hashed>>
vars == <<file, pc, file_extension, file_content, obj_pos, branch, enc_i, df, exc, ret,
          shown, calls, prev, handed, offered, engineered_df, loaded_df, passed_df,
          fe_shown, fe_edits, passTable, passPrev, passInput, passCount,
          session_state, page, app_executed, events, session_before, hashed>>

NoFile == [present |-> FALSE, name |-> <<>>, content |-> <<>>, pos |-> 0]

Message(level, text) == [level |-> level, text |-> text]

\* nothing was called on this upload object yet
NoCall == [called |-> FALSE, ret |-> None, shown |-> <<>>]

\* st.session_state of main.py before the first run of the script: no key is set
NoSession == [has_logged_in |-> FALSE, logged_in |-> FALSE,
              has_username |-> FALSE, username |-> ""]

\* nothing was dropped on the uploader
NoOffer == [made |-> FALSE, name |-> <<>>, accepted |-> FALSE]

\* a failure as its caller receives it: the returned value, with the kind
\* of failure that produced it
Handed(value, kind) == [ret |-> value, kind |-> kind]

Call(reader, enc, sep) == [reader |-> reader, enc |-> enc, sep |-> sep]

\* Latin-1 tried before UTF-8
encodingsLatinFirst == <<"latin-1", "utf-8", "cp1252", "iso-8859-1">>

\* the two encodings that decode every byte left out
encodingsStrictOnly == <<"utf-8", "cp1252">>

\* line 87
encodings == <<"utf-8", "latin-1", "cp1252", "iso-8859-1">>

\* a sample twice as long as that of line 112
SampleSizeDouble == 2 * 1024

\* line 112: the sniffed sample is the first SampleSize bytes
SampleSize == 1024

\* semicolon looked for before tab
SniffSeparatorSemicolonFirst(sample) ==
    IF SEMICOLON \in Range(sample) THEN SEMICOLON
    ELSE IF TAB \in Range(sample) THEN TAB
    ELSE IF PIPE \in Range(sample) THEN PIPE
    ELSE COMMA

\* lines 115-122: the separator chosen from the sample
SniffSeparator(sample) ==
    IF TAB \in Range(sample) THEN TAB
    ELSE IF SEMICOLON \in Range(sample) THEN SEMICOLON
    ELSE IF PIPE \in Range(sample) THEN PIPE
    ELSE COMMA

CSV == <<"c", "s", "v">>
TSV == <<"t", "s", "v">>
TXT == <<"t", "x", "t">>
XLSX == <<"x", "l", "s", "x">>
XLS == <<"x", "l", "s">>
JSON == <<"j", "s", "o", "n">>
PARQUET == <<"p", "a", "r", "q", "u", "e", "t">>
PKL == <<"p", "k", "l">>
DB == <<"d", "b">>
SQLITE == <<"s", "q", "l", "i", "t", "e">>

\* line 98
ExcelExtensions == {XLSX, XLS}

\* only db rejected with the guidance
SqliteExtensionsDbOnly == {DB}

\* line 124
SqliteExtensions == {DB, SQLITE}

\* the suffixes some branch before the final else takes (lines 85-128)
KnownExtensions ==
    {CSV} \cup ExcelExtensions \cup {JSON, PARQUET, TSV, TXT} \cup SqliteExtensions \cup {PKL}

\* line 924: the types the uploader lists
UploaderTypes == {CSV, XLSX, XLS, JSON, PARQUET}

\* the uploader keeps a file whose lowercased name ends in a dot and one of
\* its listed types
UploaderAccepts(name) ==
    \E t \in UploaderTypes :
       /\ Len(name) > Len(t)
       /\ Drop(Lower(name), Len(name) - Len(t)) = <<".">> \o t

\* the kind of failure an exception caught at line 142 stands for: the one
\* raised at line 96 when every encoding faulted is a decoding failure, any
\* other is a reader's or the pass's own
FailureKind(e) ==
    IF e.msg = "CSV decoding failed with all known encodings."
    THEN "decoding"
    ELSE "parse"

\* a handler for ValueError and its subclasses only
HandlerCatchesValueError(cls) ==
    cls \in {"ValueError", "UnicodeDecodeError", "ParserError", "EmptyDataError",
             "ArrowInvalid"}

\* line 142: "except Exception" catches every exception class a reader or
\* the pass raises
HandlerCatches(cls) == TRUE

Init ==
    /\ file = NoFile
    /\ pc = "idle"
    /\ file_extension = <<>>
    /\ file_content = <<>>
    /\ obj_pos = 0
    /\ branch = "none"
    /\ enc_i = 1
    /\ df = None
    /\ exc = NoExc
    /\ ret = None
    /\ shown = <<>>
    /\ calls = <<>>
    /\ prev = NoCall
    /\ handed = {}
    /\ offered = NoOffer
    /\ engineered_df = None
    /\ loaded_df = None
    /\ passed_df = None
    /\ fe_shown = <<>>
    /\ fe_edits = 0
    /\ passTable = None
    /\ passPrev = None
    /\ passInput = None
    /\ passCount = 0
    /\ session_state = NoSession
    /\ page = [shows |-> "nothing", error |-> FALSE]
    /\ app_executed = FALSE
    /\ events = <<>>
    /\ session_before = NoSession
    /\ hashed = <<>>

(***************************************************************************)
(* Actions of the loader                                                   *)
(***************************************************************************)
\* a new script run starts with nothing loaded yet
ResetRun ==
    /\ pc' = "idle"
    /\ file_extension' = <<>>
    /\ file_content' = <<>>
    /\ obj_pos' = 0
    /\ branch' = "none"
    /\ enc_i' = 1
    /\ df' = None
    /\ exc' = NoExc
    /\ ret' = None
    /\ shown' = <<>>
    /\ calls' = <<>>
    /\ prev' = NoCall

\* the user drops a file on the uploader (main, lines 922-928): the widget
\* takes it when its name ends in one of the listed types, and the script
\* runs with a new upload object read from its start; any other file is
\* turned away and uploaded_file stays None
Upload ==
    /\ pc = "idle"
    /\ ~file.present
    /\ \E name \in FileNames, content \in Contents :
          IF UploaderAccepts(name)
          THEN /\ file' = [present |-> TRUE, name |-> name, content |-> content, pos |-> 0]
               /\ offered' = [made |-> TRUE, name |-> name, accepted |-> TRUE]
          ELSE /\ file' = NoFile
               /\ offered' = [made |-> TRUE, name |-> name, accepted |-> FALSE]
    /\ ResetRun
    /\ UNCHANGED <<handed, feVars, passVars, loginVars>>

\* load_data takes whatever object its caller passes (line 76): any name and
\* any bytes, not only what the uploader lets through
PassUpload ==
    /\ pc = "idle"
    /\ ~file.present
    /\ \E name \in FileNames, content \in Contents :
          file' = [present |-> TRUE, name |-> name, content |-> content, pos |-> 0]
    /\ offered' = NoOffer
    /\ ResetRun
    /\ UNCHANGED <<handed, feVars, passVars, loginVars>>

\* the upload object is let go of once load_data has returned: the user
\* clears the uploader (uploaded_file is None again, lines 928 and 1003) or
\* the caller drops its reference; the session lives on
ReleaseUpload ==
    /\ pc = "done"
    /\ file.present
    /\ file' = NoFile
    /\ offered' = NoOffer
    /\ ResetRun
    /\ UNCHANGED <<handed, feVars, passVars, loginVars>>

\* load_data(file) is entered: lines 79-83.  file.read() returns the bytes
\* from the read position on and leaves the position at the end.
CallLoadData ==
    /\ pc \in {"idle", "done"}
    /\ file.present
    /\ file_content' = Drop(file.content, file.pos + 1)
    /\ file' = [file EXCEPT !.pos = Len(file.content)]
    /\ file_extension' = FileExtension(file.name)
    /\ obj_pos' = 0
    /\ branch' = "none"
    /\ enc_i' = 1
    /\ df' = None
    /\ exc' = NoExc
    /\ ret' = None
    /\ shown' = <<>>
    /\ calls' = <<>>
    /\ pc' = "dispatch"
    /\ prev' = IF pc = "done"
               THEN [called |-> TRUE, ret |-> ret, shown |-> shown]
               ELSE NoCall
    /\ UNCHANGED <<handed, offered, feVars, passVars, loginVars>>

\* the try body ends with a reader's result: a table goes on to line 136, an
\* exception to the handler of line 142
Finish(label, call, r) ==
    /\ branch' = label
    /\ calls' = Append(calls, call)
    /\ obj_pos' = Len(file_content)
    /\ IF r.ok
       THEN df' = r.df /\ exc' = NoExc /\ pc' = "loaded"
       ELSE df' = df /\ exc' = r.exc /\ pc' = "except"
    /\ UNCHANGED <<file, file_extension, file_content, ret, shown>>
    /\ UNCHANGED <<callVars, feVars, passVars, loginVars>>

\* the bytes a reader gets from file_obj: those from its read position on
Unread == Drop(file_content, obj_pos + 1)

\* every exception of a read sends the loop on to the next encoding
ReadCsvBranchCatchAll ==
    /\ pc = "dispatch"
    /\ file_extension = CSV
    /\ enc_i <= Len(encodings)
    /\ LET r == ReadCsv(Drop(file_content, 1), encodings[enc_i], COMMA)
       IN  /\ calls' = Append(calls, Call("read_csv", encodings[enc_i], COMMA))
           /\ branch' = "csv"
           /\ IF r.ok
              THEN /\ df' = r.df /\ exc' = NoExc /\ pc' = "loaded" /\ enc_i' = enc_i
                   /\ obj_pos' = Len(file_content)
              ELSE IF enc_i < Len(encodings)
              THEN /\ df' = df /\ exc' = NoExc /\ pc' = pc /\ enc_i' = enc_i + 1
                   /\ obj_pos' \in 0..Len(file_content)
              ELSE /\ df' = df
                   /\ exc' = Exc("ValueError",
                                 "CSV decoding failed with all known encodings.")
                   /\ pc' = "except"
                   /\ enc_i' = enc_i + 1
                   /\ obj_pos' = Len(file_content)
    /\ UNCHANGED <<file, file_extension, file_content, ret, shown>>
    /\ UNCHANGED <<callVars, feVars, passVars, loginVars>>

\* lines 85-96: one iteration of the encodings loop, and its else clause
\* when the last encoding raised a decoding fault.  seek(0) puts the read
\* position at the start; where a failed read leaves it is not specified.
ReadCsvBranch ==
    /\ pc = "dispatch"
    /\ file_extension = CSV
    /\ enc_i <= Len(encodings)
    /\ LET r == ReadCsv(Drop(file_content, 1), encodings[enc_i], COMMA)
       IN  /\ calls' = Append(calls, Call("read_csv", encodings[enc_i], COMMA))
           /\ branch' = "csv"
           /\ IF r.ok
              THEN /\ df' = r.df /\ exc' = NoExc /\ pc' = "loaded" /\ enc_i' = enc_i
                   /\ obj_pos' = Len(file_content)
              ELSE IF r.exc.cls # "UnicodeDecodeError"
              THEN /\ df' = df /\ exc' = r.exc /\ pc' = "except" /\ enc_i' = enc_i
                   /\ obj_pos' = Len(file_content)
              ELSE IF enc_i < Len(encodings)
              THEN /\ df' = df /\ exc' = NoExc /\ pc' = pc /\ enc_i' = enc_i + 1
                   /\ obj_pos' \in 0..Len(file_content)
              ELSE /\ df' = df
                   /\ exc' = Exc("ValueError",
                                 "CSV decoding failed with all known encodings.")
                   /\ pc' = "except"
                   /\ enc_i' = enc_i + 1
                   /\ obj_pos' = Len(file_content)
    /\ UNCHANGED <<file, file_extension, file_content, ret, shown>>
    /\ UNCHANGED <<callVars, feVars, passVars, loginVars>>

\* lines 98-99
ReadExcelBranch ==
    /\ pc = "dispatch"
    /\ file_extension \in ExcelExtensions
    /\ LET engine == IF file_extension = XLSX THEN "openpyxl" ELSE "xlrd"
       IN  Finish("excel", Call(engine, "", 0), ReadBinary(engine, Unread))
    /\ UNCHANGED enc_i

\* lines 101-102
ReadJsonBranch ==
    /\ pc = "dispatch"
    /\ file_extension \notin {CSV} \cup ExcelExtensions
    /\ file_extension = JSON
    /\ Finish("json", Call("read_json", "", 0), ReadBinary("read_json", Unread))
    /\ UNCHANGED enc_i

\* lines 104-105
ReadParquetBranch ==
    /\ pc = "dispatch"
    /\ file_extension \notin {CSV} \cup ExcelExtensions
    /\ file_extension = PARQUET
    /\ Finish("parquet", Call("read_parquet", "", 0), ReadBinary("read_parquet", Unread))
    /\ UNCHANGED enc_i

\* the tab-separated read made with Latin-1
ReadTsvBranchLatin1 ==
    /\ pc = "dispatch"
    /\ file_extension \notin {CSV} \cup ExcelExtensions
    /\ file_extension = TSV
    /\ Finish("tsv", Call("read_csv", "latin-1", TAB), ReadCsv(Unread, "latin-1", TAB))
    /\ UNCHANGED enc_i

\* lines 107-108: no encoding is given, so the default, UTF-8
ReadTsvBranch ==
    /\ pc = "dispatch"
    /\ file_extension \notin {CSV} \cup ExcelExtensions
    /\ file_extension = TSV
    /\ Finish("tsv", Call("read_csv", "utf-8", TAB), ReadCsv(Unread, "utf-8", TAB))
    /\ UNCHANGED enc_i

\* lines 110-122: seek(0), read(SampleSize), seek(0), read_csv
ReadTxtBranch ==
    /\ pc = "dispatch"
    /\ file_extension \notin {CSV} \cup ExcelExtensions
    /\ file_extension = TXT
    /\ LET sample == DecodeIgnore(Take(Drop(file_content, 1), SampleSize))
           sep == SniffSeparator(sample)
       IN  Finish("txt", Call("read_csv", "utf-8", sep),
                  ReadCsv(Drop(file_content, 1), "utf-8", sep))
    /\ UNCHANGED enc_i

\* lines 124-126
RejectSqlite ==
    /\ pc = "dispatch"
    /\ file_extension \notin {CSV} \cup ExcelExtensions \cup {JSON, PARQUET, TSV, TXT}
    /\ file_extension \in SqliteExtensions
    /\ branch' = "sqlite"
    /\ shown' = Append(shown, Message("error",
          <<"SQLite files not supported directly. Please export tables to CSV.">>))
    /\ ret' = None
    /\ pc' = "done"
    /\ UNCHANGED <<file, file_extension, file_content, obj_pos, enc_i, df, exc, calls>>
    /\ handed' = handed \cup {Handed(None, "unsupported")}
    /\ UNCHANGED <<prev, offered, feVars, passVars, loginVars>>

\* lines 128-129
ReadPickleBranch ==
    /\ pc = "dispatch"
    /\ file_extension \notin {CSV} \cup ExcelExtensions \cup {JSON, PARQUET, TSV, TXT}
                              \cup SqliteExtensions
    /\ file_extension = PKL
    /\ Finish("pkl", Call("read_pickle", "", 0), ReadBinary("read_pickle", Unread))
    /\ UNCHANGED enc_i

\* lines 131-134: the final else
RejectUnsupported ==
    /\ pc = "dispatch"
    /\ file_extension \notin KnownExtensions
    /\ branch' = "unsupported"
    /\ shown' = shown \o
          << Message("error", <<"Unsupported file format: .">> \o file_extension),
             Message("info",
                <<"Supported formats: CSV, TSV, TXT, Excel, JSON, Parquet, Pickle">>) >>
    /\ ret' = None
    /\ pc' = "done"
    /\ UNCHANGED <<file, file_extension, file_content, obj_pos, enc_i, df, exc, calls>>
    /\ handed' = handed \cup {Handed(None, "unsupported")}
    /\ UNCHANGED <<prev, offered, feVars, passVars, loginVars>>

\* the table returned as the reader gave it, the pass not looked up
OptimizeAndReturnSkipPass ==
    /\ pc = "loaded"
    /\ df' = df /\ ret' = df /\ exc' = NoExc /\ pc' = "done"
    /\ UNCHANGED <<file, file_extension, file_content, obj_pos, branch, enc_i, shown, calls>>
    /\ UNCHANGED <<callVars, feVars, passVars, loginVars>>

\* lines 136-140: the pass is defined at module level, so it always runs
OptimizeAndReturn ==
    /\ pc = "loaded"
    /\ LET r == optimize_memory_usage(df)
       IN  IF r.ok
           THEN df' = r.df /\ ret' = r.df /\ exc' = NoExc /\ pc' = "done"
           ELSE df' = df /\ ret' = ret /\ exc' = r.exc /\ pc' = "except"
    /\ UNCHANGED <<file, file_extension, file_content, obj_pos, branch, enc_i, shown, calls>>
    /\ UNCHANGED <<callVars, feVars, passVars, loginVars>>

\* the handler showing a fixed text, str(e) left out
HandleExceptionNoCause ==
    /\ pc = "except"
    /\ shown' = Append(shown, Message("error", <<"Error loading file">>))
    /\ ret' = None
    /\ pc' = "done"
    /\ UNCHANGED <<file, file_extension, file_content, obj_pos, branch, enc_i, df, exc, calls>>
    /\ handed' = handed \cup {Handed(None, FailureKind(exc))}
    /\ UNCHANGED <<prev, offered, feVars, passVars, loginVars>>

\* lines 142-144; an exception the handler does not catch leaves load_data
HandleException ==
    /\ pc = "except"
    /\ IF HandlerCatches(exc.cls)
       THEN /\ shown' = Append(shown, Message("error", <<"Error loading file: ", exc.msg>>))
            /\ ret' = None
            /\ pc' = "done"
            /\ handed' = handed \cup {Handed(None, FailureKind(exc))}
       ELSE /\ shown' = shown
            /\ ret' = ret
            /\ pc' = "propagated"
            /\ handed' = handed
    /\ UNCHANGED <<file, file_extension, file_content, obj_pos, branch, enc_i, df, exc, calls>>
    /\ UNCHANGED <<prev, offered, feVars, passVars, loginVars>>

Next ==
    \/ Upload
    \/ PassUpload
    \/ ReleaseUpload
    \/ CallLoadData
    \/ ReadCsvBranch
    \/ ReadExcelBranch
    \/ ReadJsonBranch
    \/ ReadParquetBranch
    \/ ReadTsvBranch
    \/ ReadTxtBranch
    \/ RejectSqlite
    \/ ReadPickleBranch
    \/ RejectUnsupported
    \/ OptimizeAndReturn
    \/ HandleException

Spec == Init /\ [][Next]_vars

(***************************************************************************)
(* The pass applied to its own output                                      *)
(***************************************************************************)
\* 128, 2^31 and -128
IntPool == {IntV(0, 128), IntV(1, 0), IntV(-1, Int32Max - Int8Max)}
\* a value float32 holds within the tolerance, one it does not, a missing one
FloatPool == {FloatV(5), FloatV(6), NaN}
StrPool == {StrV(A), StrV(B), NaN}

\* the value sequences a column of a declared type can hold
ColumnValues(dtype, n) ==
    IF dtype \in {"int64", "int32", "int16", "int8"}
    THEN {v \in [1..n -> IntPool] : \A i \in 1..n : FitsWidth(v[i], DtypeWidth(dtype))}
    ELSE IF dtype = "float64" THEN [1..n -> FloatPool]
    ELSE [1..n -> StrPool]

\* the declared types a reader gives a column
Dtypes == {"int64", "int32", "int16", "int8", "float64", "object"}

\* the columns of n rows, each a declared type and its values
ColumnChoices(n) == UNION {{<<d, v>> : v \in ColumnValues(d, n)} : d \in Dtypes}

\* the table of n rows made of the chosen columns, column c named by the
\* letter number c
TableOf(n, choice) ==
    DataFrame(n, [c \in 1..Len(choice) |-> Column(<<96 + c>>, choice[c][1], choice[c][2])])

InitPass ==
    /\ file = NoFile
    /\ pc = "idle"
    /\ file_extension = <<>>
    /\ file_content = <<>>
    /\ obj_pos = 0
    /\ branch = "none"
    /\ enc_i = 1
    /\ df = None
    /\ exc = NoExc
    /\ ret = None
    /\ shown = <<>>
    /\ calls = <<>>
    /\ prev = NoCall
    /\ handed = {}
    /\ offered = NoOffer
    /\ engineered_df = None
    /\ loaded_df = None
    /\ passed_df = None
    /\ fe_shown = <<>>
    /\ fe_edits = 0
    /\ \E n \in 0..MaxRows, k \in 1..MaxCols :
          \E choice \in [1..k -> ColumnChoices(n)] : passTable = TableOf(n, choice)
    /\ passPrev = passTable
    /\ passInput = passTable
    /\ passCount = 0
    /\ session_state = NoSession
    /\ page = [shows |-> "nothing", error |-> FALSE]
    /\ app_executed = FALSE
    /\ events = <<>>
    /\ session_before = NoSession
    /\ hashed = <<>>

\* optimize_memory_usage is applied to the table the previous pass returned
ApplyPass ==
    /\ passCount < MaxPasses
    /\ optimize_memory_usage(passTable).ok
    /\ passPrev' = passTable
    /\ passTable' = optimize_memory_usage(passTable).df
    /\ passCount' = passCount + 1
    /\ UNCHANGED passInput
    /\ UNCHANGED <<loaderVars, callVars, feVars, loginVars>>

NextPass == ApplyPass

SpecPass == InitPass /\ [][NextPass]_vars

(***************************************************************************)
(* The feature-engineering editor (app.py lines 268-401).  Cells:          *)
(*   bool     : hi 1 or 0                                                  *)
(*   datetime : s = <<year, month, day, hour, dayofweek>>                  *)
(* Numbers are computed in fixed point, FloatOne units to 1.0, rounded     *)
(* down, for values that fit 32 bits.                                      *)
(***************************************************************************)
BoolV(b) == [kind |-> "bool", hi |-> IF b THEN 1 ELSE 0, lo |-> 0, s |-> <<>>]
DateV(year, month, day, hour, dow) ==
    [kind |-> "datetime", hi |-> 0, lo |-> 0, s |-> <<year, month, day, hour, dow>>]

\* st.success / st.error of the editor: the text and the column it names
FeMessage(level, text, name) == [level |-> level, text |-> text, name |-> name]

ColumnNames(t) == [c \in 1..Len(t.cols) |-> t.cols[c].name]

\* select_dtypes(include=[np.number]), line 278
NumericDtypes == {"int8", "int16", "int32", "int64", "float16", "float32", "float64"}
\* line 279
CategoricalDtypes == {"object", "category"}
\* line 280
DatetimeDtypes == {"datetime64[ns]"}

ColsOfDtypes(t, dtypes) == {c \in 1..Len(t.cols) : t.cols[c].dtype \in dtypes}

\* new_df[name] = values: the column of that name is replaced, else the new
\* one is appended
SetColumn(t, col) ==
    IF \E c \in 1..Len(t.cols) : t.cols[c].name = col.name
    THEN [t EXCEPT !.cols = [c \in 1..Len(t.cols) |->
                               IF t.cols[c].name = col.name THEN col ELSE t.cols[c]]]
    ELSE [t EXCEPT !.cols = Append(t.cols, col)]

\* the integer a cell of an integer column holds
IntOf(v) == IF v.hi = 0 THEN v.lo ELSE v.lo - Int32Max - 1

\* the fixed-point value of a numeric cell
Fx(v) == IF v.kind = "int" THEN FloatOne * IntOf(v) ELSE v.hi

\* the rows of a column that hold a value: dropna()
PresentRows(col) == {i \in 1..Len(col.vals) : col.vals[i].kind # "nan"}

RECURSIVE SumOver(_, _)
SumOver(f, S) ==
    IF S = {} THEN 0
    ELSE LET i == CHOOSE x \in S : TRUE IN f[i] + SumOver(f, S \ {i})

MinOver(f, S) == CHOOSE m \in {f[i] : i \in S} : \A i \in S : m <= f[i]
MaxOver(f, S) == CHOOSE m \in {f[i] : i \in S} : \A i \in S : m >= f[i]

\* the integer square root
ISqrt(n) == CHOOSE r \in 0..(n + 1) : r * r <= n /\ (r + 1) * (r + 1) > n

\* the least fixed-point u whose natural logarithm reaches k quarter units,
\* for k = -6 .. 12, and the logarithm read off it (arguments up to 25.0)
LnThreshold == <<1, 2, 2, 2, 3, 4, 4, 6, 7, 9, 11, 14, 18, 24, 30, 38, 49, 63, 81>>
LnFx(u) ==
    CHOOSE k \in -6..12 :
        /\ LnThreshold[k + 7] <= u
        /\ k = 12 \/ LnThreshold[k + 8] > u

\* the dtype NumPy gives log and sqrt of a column
UfuncDtype(dtype) ==
    IF dtype = "int8" THEN "float16"
    ELSE IF dtype \in {"int16", "float32"} THEN "float32"
    ELSE IF dtype = "float16" THEN "float16"
    ELSE "float64"

\* arithmetic of an integer column stays in the column's width and wraps
WrapWidth(n, dtype) ==
    IF dtype = "int8" THEN ((n + 128) % 256) - 128
    ELSE IF dtype = "int16" THEN ((n + 32768) % 65536) - 32768
    ELSE n

\* a column computed cell by cell from another, missing cells staying missing
MapColumn(col, name, dtype, computed) ==
    Column(name, dtype,
           [i \in 1..Len(col.vals) |->
               IF i \in DOMAIN computed THEN computed[i] ELSE NaN])

\* "_log", "_sqrt", "_zscore", "_norm"
SuffixLog == <<95, 108, 111, 103>>
SuffixSqrt == <<95, 115, 113, 114, 116>>
SuffixZscore == <<95, 122, 115, 99, 111, 114, 101>>
SuffixNorm == <<95, 110, 111, 114, 109>>

\* line 297: np.log of the column
LogColumn(col) ==
    LET f(v) == FloatV(LnFx(Fx(v)))
    IN  MapColumn(col, col.name \o SuffixLog, UfuncDtype(col.dtype),
                  [i \in PresentRows(col) |-> f(col.vals[i])])

\* line 303: np.sqrt of the column
SqrtColumn(col) ==
    LET f(v) == FloatV(ISqrt(FloatOne * Fx(v)))
    IN  MapColumn(col, col.name \o SuffixSqrt, UfuncDtype(col.dtype),
                  [i \in PresentRows(col) |-> f(col.vals[i])])

\* line 308: (x - mean) / std, std the sample deviation; fewer than two
\* values, or no deviation, give missing cells
ZscoreColumn(col) ==
    LET rows == PresentRows(col)
        n == Cardinality(rows)
        x == [i \in 1..Len(col.vals) |-> Fx(col.vals[i])]
        mean == SumOver(x, rows) \div n
        sq == [i \in 1..Len(col.vals) |-> (x[i] - mean) * (x[i] - mean)]
        std == Max2(1, ISqrt(SumOver(sq, rows) \div (n - 1)))
        flat == \A i \in rows : x[i] = mean
        f(v) == IF n < 2 \/ flat THEN NaN
                ELSE FloatV(((Fx(v) - mean) * FloatOne) \div std)
    IN  MapColumn(col, col.name \o SuffixZscore,
                  IF col.dtype \in {"float16", "float32"} THEN col.dtype ELSE "float64",
                  [i \in PresentRows(col) |-> f(col.vals[i])])

\* line 311: (x - min) / (max - min); the differences of an integer column
\* are taken in its own width
NormColumn(col) ==
    LET rows == PresentRows(col)
        isint == col.dtype \in {"int8", "int16", "int32", "int64"}
        x == [i \in 1..Len(col.vals) |-> Fx(col.vals[i])]
        diff(a, b) == IF isint
                      THEN FloatOne * WrapWidth((a - b) \div FloatOne, col.dtype)
                      ELSE a - b
        span == diff(MaxOver(x, rows), MinOver(x, rows))
        f(v) == IF span = 0 THEN NaN
                ELSE FloatV((diff(Fx(v), MinOver(x, rows)) * FloatOne) \div span)
    IN  MapColumn(col, col.name \o SuffixNorm,
                  IF col.dtype \in {"float16", "float32"} THEN col.dtype ELSE "float64",
                  [i \in PresentRows(col) |-> f(col.vals[i])])

Transformations == {"Log", "Square Root", "Standardization", "Normalization"}

\* lines 292-314: the table after the button, and the message shown
NumericTransformation(t, c, transformation) ==
    LET col == t.cols[c]
        x == [i \in 1..Len(col.vals) |-> Fx(col.vals[i])]
        rows == PresentRows(col)
    IN  IF transformation = "Log"
        THEN IF \A i \in rows : x[i] > 0
             THEN [df |-> SetColumn(t, LogColumn(col)),
                   msg |-> FeMessage("success", "Added: ", col.name \o SuffixLog)]
             ELSE [df |-> t, msg |-> FeMessage("error", "Log requires all values > 0", <<>>)]
        ELSE IF transformation = "Square Root"
        THEN IF \A i \in rows : x[i] >= 0
             THEN [df |-> SetColumn(t, SqrtColumn(col)),
                   msg |-> FeMessage("success", "Added: ", col.name \o SuffixSqrt)]
             ELSE [df |-> t,
                   msg |-> FeMessage("error", "Square Root requires values >= 0", <<>>)]
        ELSE IF transformation = "Standardization"
        THEN [df |-> SetColumn(t, ZscoreColumn(col)),
              msg |-> FeMessage("success", "Added: ", col.name \o SuffixZscore)]
        ELSE [df |-> SetColumn(t, NormColumn(col)),
              msg |-> FeMessage("success", "Added: ", col.name \o SuffixNorm)]

\* str(value): astype(str) writes a missing cell as "nan"
StrOf(v) == IF v.kind = "nan" THEN <<110, 97, 110>> ELSE v.s

\* the order of strings by code point
SeqLess(a, b) ==
    \E k \in 1..(Len(a) + 1) :
       /\ k <= Len(b)
       /\ \A j \in 1..(k - 1) : a[j] = b[j]
       /\ k = Len(a) + 1 \/ a[k] < b[k]

\* "_label", "_freq", "_bin", "_"
SuffixLabel == <<95, 108, 97, 98, 101, 108>>
SuffixFreq == <<95, 102, 114, 101, 113>>
SuffixBin == <<95, 98, 105, 110>>
Underscore == <<95>>

\* lines 324-325: LabelEncoder numbers the sorted distinct strings from 0
LabelColumn(col) ==
    LET classes == {StrOf(col.vals[i]) : i \in 1..Len(col.vals)}
        label(v) == Cardinality({k \in classes : SeqLess(k, StrOf(v))})
    IN  Column(col.name \o SuffixLabel, "int64",
               [i \in 1..Len(col.vals) |-> IntV(0, label(col.vals[i]))])

\* pd.get_dummies(column, prefix=name): one bool column for each distinct
\* value, in sorted order; a missing cell is False in all of them
Dummies(col) ==
    LET cats == {col.vals[i].s : i \in PresentRows(col)}
        kth(k) == CHOOSE x \in cats : Cardinality({y \in cats : SeqLess(y, x)}) = k - 1
    IN  [k \in 1..Cardinality(cats) |->
            Column(col.name \o Underscore \o kth(k), "bool",
                   [i \in 1..Len(col.vals) |->
                       BoolV(col.vals[i].kind # "nan" /\ col.vals[i].s = kth(k))])]

\* pd.concat([new_df, dummies], axis=1): the columns side by side, in a new
\* table
Concat(t, columns) == [t EXCEPT !.cols = t.cols \o columns]

\* lines 333-334: each cell replaced by the count of its value.  Mapping a
\* categorical column gives a categorical one when the counts of its
\* categories differ pairwise; a missing cell stays missing.
FreqColumn(col) ==
    LET rows == PresentRows(col)
        count(s) == Cardinality({i \in rows : col.vals[i].s = s})
        cats == {col.vals[i].s : i \in rows}
        oneToOne == \A x \in cats, y \in cats : count(x) = count(y) => x = y
        whole == rows = 1..Len(col.vals)
        cell(v) == IF v.kind = "nan" THEN NaN
                   ELSE IF whole \/ (col.dtype = "category" /\ oneToOne)
                   THEN IntV(0, count(v.s))
                   ELSE FloatV(FloatOne * count(v.s))
        dtype == IF col.dtype = "category" /\ oneToOne THEN "category"
                 ELSE IF whole THEN "int64" ELSE "float64"
    IN  Column(col.name \o SuffixFreq, dtype,
               [i \in 1..Len(col.vals) |-> cell(col.vals[i])])

EncodingTypes == {"Label Encoding", "One-Hot Encoding", "Frequency Encoding"}

\* line 342: the options of the multiselect
DateTimeFeatures ==
    {"Year", "Month", "Day", "Hour", "Quarter", "Day of Week", "Is Weekend"}

\* "_year", "_month", "_day", "_hour", "_quarter", "_dow", "_is_weekend"
FeatureSuffix(f) ==
    IF f = "Year" THEN <<95, 121, 101, 97, 114>>
    ELSE IF f = "Month" THEN <<95, 109, 111, 110, 116, 104>>
    ELSE IF f = "Day" THEN <<95, 100, 97, 121>>
    ELSE IF f = "Hour" THEN <<95, 104, 111, 117, 114>>
    ELSE IF f = "Quarter" THEN <<95, 113, 117, 97, 114, 116, 101, 114>>
    ELSE IF f = "Day of Week" THEN <<95, 100, 111, 119>>
    ELSE <<95, 105, 115, 95, 119, 101, 101, 107, 101, 110, 100>>

\* lines 346-360: one feature of a datetime column
FeatureColumn(col, f) ==
    LET whole == PresentRows(col) = 1..Len(col.vals)
        part(v) == IF f = "Year" THEN v.s[1]
                   ELSE IF f = "Month" THEN v.s[2]
                   ELSE IF f = "Day" THEN v.s[3]
                   ELSE IF f = "Hour" THEN v.s[4]
                   ELSE IF f = "Quarter" THEN (v.s[2] - 1) \div 3 + 1
                   ELSE v.s[5]
        cell(v) == IF f = "Is Weekend" THEN BoolV(v.kind # "nan" /\ v.s[5] >= 5)
                   ELSE IF v.kind = "nan" THEN NaN
                   ELSE IF whole THEN IntV(0, part(v))
                   ELSE FloatV(FloatOne * part(v))
        dtype == IF f = "Is Weekend" THEN "bool"
                 ELSE IF whole THEN "int32" ELSE "float64"
    IN  Column(col.name \o FeatureSuffix(f), dtype,
               [i \in 1..Len(col.vals) |-> cell(col.vals[i])])

\* line 346: the features are added one after the other, each read from the
\* selected column as it is then
RECURSIVE ExtractFeatures(_, _, _)
ExtractFeatures(t, name, features) ==
    IF features = <<>> THEN t
    ELSE LET c == CHOOSE k \in 1..Len(t.cols) : t.cols[k].name = name
         IN  ExtractFeatures(SetColumn(t, FeatureColumn(t.cols[c], features[1])),
                             name, Drop(features, 2))

\* line 369: the slider's least and default number of bins
BinCounts == {2, 5}
BinningMethods == {"Equal Width", "Equal Frequency"}

\* the bin numbers as a column: integers, or floats when a cell is missing
BinColumn(col, idx) ==
    LET whole == \A i \in 1..Len(col.vals) : idx[i] >= 0
    IN  Column(col.name \o SuffixBin, IF whole THEN "int64" ELSE "float64",
               [i \in 1..Len(col.vals) |->
                   IF idx[i] < 0 THEN NaN
                   ELSE IF whole THEN IntV(0, idx[i])
                   ELSE FloatV(FloatOne * idx[i])])

\* pd.cut(column, bins=bins, labels=False): equal-width intervals, closed on
\* the right, the least value in the first; -1 marks a missing cell.  A
\* column of one value falls in the middle interval.
CutIndex(col, bins) ==
    LET rows == PresentRows(col)
        x == [i \in 1..Len(col.vals) |-> Fx(col.vals[i])]
        mn == MinOver(x, rows)
        mx == MaxOver(x, rows)
    IN  [i \in 1..Len(col.vals) |->
            IF i \notin rows THEN -1
            ELSE IF mn = mx THEN (bins - 1) \div 2
            ELSE IF x[i] = mn THEN 0
            ELSE (((x[i] - mn) * bins + (mx - mn) - 1) \div (mx - mn)) - 1]

\* pd.qcut(column, q=bins, labels=False, duplicates='drop'): the edges are
\* the quantiles j/bins, interpolated between neighbours and here scaled by
\* bins; equal edges are merged; a value in no interval is missing
QcutIndex(col, bins) ==
    LET rows == PresentRows(col)
        n == Cardinality(rows)
        x == [i \in 1..Len(col.vals) |-> Fx(col.vals[i])]
        kth(k) == CHOOSE v \in {x[i] : i \in rows} :
                     /\ Cardinality({i \in rows : x[i] < v}) < k
                     /\ Cardinality({i \in rows : x[i] <= v}) >= k
        edge(j) == LET p == j * (n - 1)
                       lo == p \div bins
                       rem == p % bins
                   IN  IF rem = 0 THEN bins * kth(lo + 1)
                       ELSE bins * kth(lo + 1) + rem * (kth(lo + 2) - kth(lo + 1))
        edges == {edge(j) : j \in 0..bins}
        ids(v) == IF bins * v = edge(0) THEN 1
                  ELSE Cardinality({e \in edges : e < bins * v})
    IN  [i \in 1..Len(col.vals) |->
            IF i \notin rows THEN -1
            ELSE IF ids(x[i]) = Cardinality(edges) THEN -1
            ELSE ids(x[i]) - 1]

\* lines 371-379: the table after the button, and the message shown; a
\* column with no value makes pd.cut raise
Binning(t, c, method, bins) ==
    LET col == t.cols[c]
    IN  IF method = "Equal Width" /\ PresentRows(col) = {}
        THEN [df |-> t, msg |-> FeMessage("error", "Error: ", <<>>)]
        ELSE [df |-> SetColumn(t, BinColumn(col, IF method = "Equal Width"
                                                 THEN CutIndex(col, bins)
                                                 ELSE QcutIndex(col, bins))),
              msg |-> FeMessage("success", "Binned column added: ", col.name \o SuffixBin)]

\* line 389: drop(columns=cols_to_drop, inplace=True)
DropColumns(t, names) ==
    LET keep(col) == col.name \notin names
    IN  [t EXCEPT !.cols = SelectSeq(t.cols, keep)]

\* the tables readers give the editor's runs: three rows of an integer and
\* a repeated string; two rows of a float with a missing cell and two
\* strings; two rows of a negative integer and a datetime (a Saturday
\* afternoon and a Monday midnight)
FeRawTables ==
    { DataFrame(3, << Column(A, "int64", <<IntV(0, 1), IntV(0, 4), IntV(0, 4)>>),
                      Column(B, "object", <<StrV(A), StrV(A), StrV(A)>>) >>),
      DataFrame(2, << Column(A, "float64", <<FloatV(5), NaN>>),
                      Column(B, "object", <<StrV(A), StrV(B)>>) >>),
      DataFrame(2, << Column(A, "int64", <<IntV(-1, Int32Max), IntV(0, 4)>>),
                      Column(<<100>>, "datetime64[ns]",
                             <<DateV(2024, 1, 6, 13, 5), DateV(2023, 12, 25, 0, 0)>>) >>) }

\* what load_data returns for them: the pass has run (lines 136-140)
FeTables == {optimize_memory_usage(t).df : t \in FeRawTables}

\* df.copy(), line 274: a new object holding the same columns and cells
DfCopy(t) == t

\* the two objects a run of feature_engineering can write to: the table it
\* was passed and the one the session holds
Heap(passed, session) == [df |-> passed, session |-> session]

\* the editor writing to the table it was passed
NewDfRefPassed == "df"

\* line 276: new_df is the session's object
NewDfRef == "session"

\* selections of the datetime multiselect, in the order they were made:
\* none, one, two out of the listed order, and the other four
FeatureSelections ==
    { <<>>,
      <<"Year">>,
      <<"Is Weekend", "Quarter">>,
      <<"Month", "Day", "Hour", "Day of Week">> }

\* what a run of feature_engineering leaves behind: the two objects and the
\* message
FeEnds(after, msg) ==
    /\ fe_edits < MaxEdits
    /\ fe_edits' = fe_edits + 1
    /\ engineered_df' = after.session
    /\ passed_df' = after.df
    /\ fe_shown' = <<msg>>
    /\ UNCHANGED <<loaded_df, loaderVars, callVars, passVars, loginVars>>

\* a run of main in which load_data returned a table (lines 928-933) and no
\* button of the editor was pressed: an upload, or a rerun.  The session
\* gets its copy when it has none (lines 273-274).
RunWithUpload ==
    /\ \E t \in FeTables :
          /\ loaded_df' = t
          /\ passed_df' = t
          /\ engineered_df' = IF engineered_df = None THEN DfCopy(t) ELSE engineered_df
    /\ fe_shown' = <<>>
    /\ UNCHANGED <<fe_edits, loaderVars, callVars, passVars, loginVars>>

\* lines 288-314: the rerun after "Apply Numeric Transformation"
ApplyNumericTransformation ==
    /\ loaded_df # None
    /\ engineered_df # None
    /\ LET heap == Heap(loaded_df, engineered_df)
           new_df == heap[NewDfRef]
       IN  \E c \in ColsOfDtypes(new_df, NumericDtypes), transformation \in Transformations :
              LET r == NumericTransformation(new_df, c, transformation)
              IN  FeEnds([heap EXCEPT ![NewDfRef] = r.df], r.msg)

\* lines 317-336: the rerun after "Apply Encoding".  One-hot encoding builds
\* a new table and stores it in the session (lines 329-330); the other two write to new_df.
ApplyEncoding ==
    /\ loaded_df # None
    /\ engineered_df # None
    /\ LET heap == Heap(loaded_df, engineered_df)
           new_df == heap[NewDfRef]
       IN  \E c \in ColsOfDtypes(new_df, CategoricalDtypes), encoding_type \in EncodingTypes :
              LET col == new_df.cols[c]
              IN  IF encoding_type = "Label Encoding"
                  THEN FeEnds([heap EXCEPT ![NewDfRef] = SetColumn(new_df, LabelColumn(col))],
                              FeMessage("success", "Added: ", col.name \o SuffixLabel))
                  ELSE IF encoding_type = "One-Hot Encoding"
                  THEN FeEnds([heap EXCEPT !.session = Concat(new_df, Dummies(col))],
                              FeMessage("success", "Added One-Hot columns",
                                        <<Len(Dummies(col))>>))
                  ELSE FeEnds([heap EXCEPT ![NewDfRef] = SetColumn(new_df, FreqColumn(col))],
                              FeMessage("success", "Added: ", col.name \o SuffixFreq))

\* lines 340-363: the rerun after "Extract DateTime Features"
ExtractDateTimeFeatures ==
    /\ loaded_df # None
    /\ engineered_df # None
    /\ LET heap == Heap(loaded_df, engineered_df)
           new_df == heap[NewDfRef]
       IN  \E c \in ColsOfDtypes(new_df, DatetimeDtypes), features \in FeatureSelections :
              FeEnds([heap EXCEPT ![NewDfRef] =
                         ExtractFeatures(new_df, new_df.cols[c].name, features)],
                     FeMessage("success", "Extracted features from ", new_df.cols[c].name))

\* lines 366-379: the rerun after "Apply Binning"
ApplyBinning ==
    /\ loaded_df # None
    /\ engineered_df # None
    /\ LET heap == Heap(loaded_df, engineered_df)
           new_df == heap[NewDfRef]
       IN  \E c \in ColsOfDtypes(new_df, NumericDtypes), method \in BinningMethods,
              bins \in BinCounts :
              LET r == Binning(new_df, c, method, bins)
              IN  FeEnds([heap EXCEPT ![NewDfRef] = r.df], r.msg)

\* lines 383-390: the rerun after "Delete Selected Columns", some columns
\* being selected; the drop is made on the session's object
DeleteSelectedColumns ==
    /\ loaded_df # None
    /\ engineered_df # None
    /\ LET heap == Heap(loaded_df, engineered_df)
       IN  \E cols_to_drop \in SUBSET Range(ColumnNames(heap.session)) :
              /\ cols_to_drop # {}
              /\ FeEnds([heap EXCEPT !.session = DropColumns(heap.session, cols_to_drop)],
                        FeMessage("success", "Dropped columns: ", <<>>))

NextFE ==
    \/ RunWithUpload
    \/ ApplyNumericTransformation
    \/ ApplyEncoding
    \/ ExtractDateTimeFeatures
    \/ ApplyBinning
    \/ DeleteSelectedColumns

SpecFE == Init /\ [][NextFE]_vars

(***************************************************************************)
(* hashlib.sha256(data).hexdigest() (main.py, line 6): SHA-256 of FIPS     *)
(* 180-4.  A 32-bit word is a pair <<high half, low half>> of 16-bit       *)
(* numbers.  The operations on words are functions, which take values.     *)
(***************************************************************************)
Word == (0..(2^16 - 1)) \X (0..(2^16 - 1))

\* a bitwise operation on two n-bit numbers: "xor" or "and"
RECURSIVE Bitwise(_, _, _, _)
Bitwise(op, a, b, n) ==
    IF n = 0 THEN 0
    ELSE (IF op = "xor" THEN (a + b) % 2 ELSE (a % 2) * (b % 2))
         + 2 * Bitwise(op, a \div 2, b \div 2, n - 1)

Xor32[x \in Word, y \in Word] ==
    <<Bitwise("xor", x[1], y[1], 16), Bitwise("xor", x[2], y[2], 16)>>
And32[x \in Word, y \in Word] ==
    <<Bitwise("and", x[1], y[1], 16), Bitwise("and", x[2], y[2], 16)>>
Not32[x \in Word] == <<2^16 - 1 - x[1], 2^16 - 1 - x[2]>>

\* addition modulo 2^32
Add32[x \in Word, y \in Word] ==
    <<(x[1] + y[1] + ((x[2] + y[2]) \div (2^16))) % (2^16), (x[2] + y[2]) % (2^16)>>

\* rotation to the right by n bits
Rotr32[x \in Word, n \in 1..31] ==
    LET h == IF n >= 16 THEN x[2] ELSE x[1]
        l == IF n >= 16 THEN x[1] ELSE x[2]
        p == 2^(n % 16)
        q == 2^(16 - (n % 16))
    IN  <<(h \div p) + (l % p) * q, (l \div p) + (h % p) * q>>

\* shift to the right by n bits
Shr32[x \in Word, n \in 1..15] ==
    <<x[1] \div (2^n), (x[2] \div (2^n)) + (x[1] % (2^n)) * 2^(16 - n)>>

\* the round constants and the initial hash value
Sha256K ==
    << <<17034, 12184>>, <<28983, 17553>>, <<46528, 64463>>, <<59829, 56229>>,
       <<14678, 49755>>, <<23025, 4593>>, <<37439, 33444>>, <<43804, 24277>>,
       <<55303, 43672>>, <<4739, 23297>>, <<9265, 34238>>, <<21772, 32195>>,
       <<29374, 23924>>, <<32990, 45566>>, <<39900, 1703>>, <<49563, 61812>>,
       <<58523, 27073>>, <<61374, 18310>>, <<4033, 40390>>, <<9228, 41420>>,
       <<11753, 11375>>, <<19060, 33962>>, <<23728, 43484>>, <<30457, 35034>>,
       <<38974, 20818>>, <<43057, 50797>>, <<45059, 10184>>, <<48985, 32711>>,
       <<50912, 3059>>, <<54695, 37191>>, <<1738, 25425>>, <<5161, 10599>>,
       <<10167, 2693>>, <<11803, 8504>>, <<19756, 28156>>, <<21304, 3347>>,
       <<25866, 29524>>, <<30314, 2747>>, <<33218, 51502>>, <<37490, 11397>>,
       <<41663, 59553>>, <<43034, 26187>>, <<49739, 35696>>, <<51052, 20899>>,
       <<53650, 59417>>, <<54937, 1572>>, <<62478, 13701>>, <<4202, 41072>>,
       <<6564, 49430>>, <<7735, 27656>>, <<10056, 30540>>, <<13488, 48309>>,
       <<14620, 3251>>, <<20184, 43594>>, <<23452, 51791>>, <<26670, 28659>>,
       <<29839, 33518>>, <<30885, 25455>>, <<33992, 30740>>, <<36039, 520>>,
       <<37054, 65530>>, <<42064, 27883>>, <<48889, 41975>>, <<50801, 30962>> >>

Sha256H0 ==
    << <<27145, 58983>>, <<47975, 44677>>, <<15470, 62322>>, <<42319, 62778>>,
       <<20750, 21119>>, <<39685, 26764>>, <<8067, 55723>>, <<23520, 52505>> >>

\* the message schedule: the 16 words of a block extended to 64
Sha256Schedule[w \in Seq(Word)] ==
    IF Len(w) >= 64 THEN w
    ELSE LET t == Len(w) + 1
             s0 == Xor32[Xor32[Rotr32[w[t - 15], 7], Rotr32[w[t - 15], 18]],
                         Shr32[w[t - 15], 3]]
             s1 == Xor32[Xor32[Rotr32[w[t - 2], 17], Rotr32[w[t - 2], 19]],
                         Shr32[w[t - 2], 10]]
         IN  Sha256Schedule[Append(w, Add32[Add32[w[t - 16], s0], Add32[w[t - 7], s1]])]

\* rounds t .. 64 on the working variables v = <<a, b, c, d, e, f, g, h>>
Sha256Rounds[v \in Seq(Word), w \in Seq(Word), t \in 1..65] ==
    IF t > 64 THEN v
    ELSE LET a == v[1]
             e == v[5]
             S1 == Xor32[Xor32[Rotr32[e, 6], Rotr32[e, 11]], Rotr32[e, 25]]
             ch == Xor32[And32[e, v[6]], And32[Not32[e], v[7]]]
             T1 == Add32[Add32[Add32[v[8], S1], Add32[ch, Sha256K[t]]], w[t]]
             S0 == Xor32[Xor32[Rotr32[a, 2], Rotr32[a, 13]], Rotr32[a, 22]]
             maj == Xor32[Xor32[And32[a, v[2]], And32[a, v[3]]], And32[v[2], v[3]]]
         IN  Sha256Rounds[<<Add32[T1, Add32[S0, maj]], a, v[2], v[3], Add32[v[4], T1],
                            e, v[6], v[7]>>, w, t + 1]

\* the message padded to whole 64-byte blocks: a 1 bit, zeros, and the
\* length in bits as 8 bytes
Sha256Pad(bytes) ==
    LET bits == 8 * Len(bytes)
        zeros == (119 - (Len(bytes) % 64)) % 64
    IN  bytes \o <<128>> \o [i \in 1..zeros |-> 0]
              \o <<0, 0, 0, 0, (bits \div (2^24)) % 256, (bits \div (2^16)) % 256,
                   (bits \div 256) % 256, bits % 256>>

\* the hash value after the blocks k, k + 1, ... of the padded message m
Sha256Blocks[h \in Seq(Word), m \in Seq(0..255), k \in Nat] ==
    IF 64 * (k - 1) >= Len(m) THEN h
    ELSE LET word(j) == LET o == 64 * (k - 1) + 4 * (j - 1)
                        IN  <<m[o + 1] * 256 + m[o + 2], m[o + 3] * 256 + m[o + 4]>>
             block == SubSeq([j \in 1..16 |-> word(j)], 1, 16)
         IN  Sha256Blocks[
                 [i \in 1..8 |-> Add32[h[i], Sha256Rounds[h, Sha256Schedule[block], 1][i]]],
                 m, k + 1]

\* hexdigest(): the 8 words as 64 lowercase hexadecimal digits
HexDigest[h \in Seq(Word)] ==
    [i \in 1..64 |->
        LET half == h[((i - 1) \div 8) + 1][(((i - 1) \div 4) % 2) + 1]
            d == (half \div 16^(3 - ((i - 1) % 4))) % 16
        IN  IF d < 10 THEN 48 + d ELSE 87 + d]

sha256_hexdigest(bytes) == HexDigest[Sha256Blocks[Sha256H0, Sha256Pad(bytes), 1]]

(***************************************************************************)
(* main.py: the login gate in front of the tool                            *)
(***************************************************************************)
\* str.encode(): the UTF-8 bytes of a text given as its code points
RECURSIVE Utf8Encode(_)
Utf8Encode(text) ==
    IF text = <<>> THEN <<>>
    ELSE LET c == Head(text)
             first == IF c < 128 THEN <<c>>
                      ELSE IF c < 2048 THEN <<192 + (c \div 64), 128 + (c % 64)>>
                      ELSE IF c < 65536
                      THEN <<224 + (c \div 4096), 128 + ((c \div 64) % 64), 128 + (c % 64)>>
                      ELSE <<240 + (c \div 262144), 128 + ((c \div 4096) % 64),
                             128 + ((c \div 64) % 64), 128 + (c % 64)>>
         IN  first \o Utf8Encode(Tail(text))

\* lines 5-6
hash_password(password) == sha256_hexdigest(Utf8Encode(password))

\* "Sync@1998", the same in lower case, the empty text and "Sync@1998é"
Passwords ==
    { <<83, 121, 110, 99, 64, 49, 57, 57, 56>>,
      <<115, 121, 110, 99, 64, 49, 57, 57, 56>>,
      <<>>,
      <<83, 121, 110, 99, 64, 49, 57, 57, 56, 233>> }

Emails == {"dmkc@Samhita.com", "dmkc@samhita.com"}

\* lines 9-11: the one account, its password "Sync@1998" kept as its hash
users == [email \in {"dmkc@Samhita.com"} |-> hashed[<<83, 121, 110, 99, 64, 49, 57, 57, 56>>]]

\* what started a run of the script: a button that was pressed, with the
\* two text inputs as they were, or anything else ("none")
Event(kind, email, password) == [kind |-> kind, email |-> email, password |-> password]
NoEvent == Event("none", "", <<>>)

\* what main hands back: the session, the page drawn, whether
\* st.experimental_rerun() ended the run, whether app.py was executed
Run(state, shows, error, rerun, app) ==
    [state |-> state, shows |-> shows, error |-> error, rerun |-> rerun, app |-> app]

\* the email alone decides
loginEmailOnly(state, ev) ==
    IF ev.kind = "login" /\ ev.email \in DOMAIN users
    THEN Run([state EXCEPT !.logged_in = TRUE, !.has_username = TRUE,
                           !.username = ev.email], "login", FALSE, TRUE, FALSE)
    ELSE Run(state, "login", ev.kind = "login", FALSE, FALSE)

\* lines 14-25
login(state, ev) ==
    IF ev.kind = "login"
    THEN IF ev.email \in DOMAIN users /\ users[ev.email] = hashed[ev.password]
         THEN Run([state EXCEPT !.logged_in = TRUE, !.has_username = TRUE,
                                !.username = ev.email], "login", FALSE, TRUE, FALSE)
         ELSE Run(state, "login", TRUE, FALSE, FALSE)
    ELSE Run(state, "login", FALSE, FALSE, FALSE)

\* lines 28-30
logout(state) == Run([state EXCEPT !.logged_in = FALSE], "tool", FALSE, TRUE, FALSE)

\* lines 52-69: one run of the script
main(state, ev) ==
    LET s == IF state.has_logged_in THEN state
             ELSE [state EXCEPT !.has_logged_in = TRUE, !.logged_in = FALSE]
    IN  IF ~s.logged_in THEN login(s, ev)
        ELSE IF ev.kind = "logout" THEN logout(s)
        ELSE Run(s, "tool", FALSE, FALSE, TRUE)

\* a run started by ev, and the run st.experimental_rerun() starts after it
ScriptRun(ev) ==
    /\ Len(events) < MaxEvents
    /\ LET first == main(session_state, ev)
           last == IF first.rerun THEN main(first.state, NoEvent) ELSE first
       IN  /\ session_state' = last.state
           /\ page' = [shows |-> last.shows, error |-> last.error]
           /\ app_executed' = last.app
    /\ session_before' = session_state
    /\ events' = Append(events, ev)
    /\ UNCHANGED <<loaderVars, callVars, feVars, passVars, hashed>>

\* the page is opened, or a widget other than the two buttons is used
RunScript ==
    /\ events = <<>> \/ page.shows # "nothing"
    /\ ScriptRun(NoEvent)

\* the Login button of line 19 is on the page only when login() drew it
PressLogin ==
    /\ page.shows = "login"
    /\ \E email \in Emails, password \in Passwords : ScriptRun(Event("login", email, password))

\* the Logout button of line 60 is on the page only when main drew it
PressLogout ==
    /\ page.shows = "tool"
    /\ ScriptRun(Event("logout", "", <<>>))

NextLogin ==
    \/ RunScript
    \/ PressLogin
    \/ PressLogout

\* a session that starts: nothing was loaded, and the hashes are those
\* hash_password computes
InitLogin ==
    /\ hashed = [password \in Passwords |-> hash_password(password)]
    /\ file = NoFile
    /\ pc = "idle"
    /\ file_extension = <<>>
    /\ file_content = <<>>
    /\ obj_pos = 0
    /\ branch = "none"
    /\ enc_i = 1
    /\ df = None
    /\ exc = NoExc
    /\ ret = None
    /\ shown = <<>>
    /\ calls = <<>>
    /\ prev = NoCall
    /\ handed = {}
    /\ offered = NoOffer
    /\ engineered_df = None
    /\ loaded_df = None
    /\ passed_df = None
    /\ fe_shown = <<>>
    /\ fe_edits = 0
    /\ passTable = None
    /\ passPrev = None
    /\ passInput = None
    /\ passCount = 0
    /\ session_state = NoSession
    /\ page = [shows |-> "nothing", error |-> FALSE]
    /\ app_executed = FALSE
    /\ events = <<>>
    /\ session_before = NoSession

SpecLogin == InitLogin /\ [][NextLogin]_vars

(***************************************************************************)
(* Properties                                                              *)
(***************************************************************************)
\* the lowercased text after the final '.' of a name, the whole name when it
\* has no dot; stated from the letters, apart from FileExtension
SuffixOf(name) ==
    LET tail == Drop(name, LastIndexOf(name, ".") + 1)
        fold(c) == IF \E k \in 1..26 : UpperLetters[k] = c
                   THEN LowerLetters[CHOOSE k \in 1..26 : UpperLetters[k] = c]
                   ELSE c
    IN  [i \in 1..Len(tail) |-> fold(tail[i])]

\* the encodings in the documented fallback order
FallbackOrder == <<"utf-8", "latin-1", "cp1252", "iso-8859-1">>

TenSuffixes == {CSV, TSV, TXT, XLSX, XLS, JSON, PARQUET, PKL, DB, SQLITE}

\* C1: whatever the name and the bytes, and whatever exception a reader or
\* the memory-reduction pass raises, no exception leaves load_data: the call
\* ends with a Table returned, or with None returned and an error shown.
C1_NoExceptionEscapes ==
    /\ pc # "propagated"
    /\ pc = "done" =>
          \/ IsTable(ret)
          \/ ret = None /\ \E i \in 1..Len(shown) : shown[i].level = "error"

\* a call in which the pass itself raised, and that still ended with None
C1_Witness ==
    pc = "done" /\ exc.cls = "ZeroDivisionError" /\ ret = None /\ shown # <<>>

\* C2: on the csv branch the read attempts are made in the order UTF-8,
\* Latin-1, Windows-1252, ISO-8859-1, each over the whole content; every
\* attempt but the last raised a decoding fault, and a Table comes from the
\* first encoding that decodes the content.
C2_CsvEncodingOrder ==
    branch = "csv" =>
        LET last == FallbackOrder[Len(calls)]
        IN  /\ Len(calls) \in 1..4
            /\ \A i \in 1..Len(calls) :
                  calls[i] = Call("read_csv", FallbackOrder[i], COMMA)
            /\ \A i \in 1..(Len(calls) - 1) : ~Decode(file_content, FallbackOrder[i]).ok
            /\ pc = "loaded" =>
                  /\ Decode(file_content, last).ok
                  /\ df = ReadCsv(file_content, last, COMMA).df
            /\ (pc = "done" /\ IsTable(ret)) =>
                  /\ Decode(file_content, last).ok
                  /\ ret.nrows = ReadCsv(file_content, last, COMMA).df.nrows
                  /\ \A c \in 1..Len(ret.cols) :
                        /\ ret.cols[c].name = ReadCsv(file_content, last, COMMA).df.cols[c].name
                        /\ ret.cols[c].vals = ReadCsv(file_content, last, COMMA).df.cols[c].vals

\* content that is not UTF-8 loaded on the second attempt, its header "a\xe9"
\* read as Latin-1
C2_Witness ==
    /\ pc = "done" /\ branch = "csv" /\ IsTable(ret)
    /\ ~Decode(file_content, "utf-8").ok
    /\ Len(calls) = 2 /\ calls[2].enc = "latin-1"
    /\ ret.cols[1].name = <<97, 233>>

\* C3: on the txt branch the one read uses tab if the sample holds a tab,
\* else semicolon if it holds a semicolon, else pipe if it holds a pipe,
\* else comma, and it parses the whole content.
C3_TxtSeparatorPriority ==
    branch = "txt" =>
        LET sample == DecodeIgnore(Take(file_content, 1024))
            has(b) == \E i \in 1..Len(sample) : sample[i] = b
            sep == calls[1].sep
        IN  /\ Len(calls) = 1
            /\ calls[1].reader = "read_csv"
            /\ has(9) => sep = 9
            /\ (~has(9) /\ has(59)) => sep = 59
            /\ (~has(9) /\ ~has(59) /\ has(124)) => sep = 124
            /\ (~has(9) /\ ~has(59) /\ ~has(124)) => sep = 44
            /\ pc = "loaded" => df = ReadCsv(file_content, "utf-8", sep).df

\* a sample holding both a semicolon and a tab, parsed as tab-delimited
C3_Witness ==
    /\ pc = "done" /\ branch = "txt" /\ IsTable(ret)
    /\ 59 \in Range(file_content) /\ 9 \in Range(file_content)
    /\ calls[1].sep = 9
    /\ Len(ret.cols) = 2

\* C4: for a name whose suffix is db or sqlite the call ends with None and
\* the export-to-CSV guidance, no reader having been invoked and no
\* exception raised, whatever the bytes.
C4_SqliteRejected ==
    (file.present /\ SuffixOf(file.name) \in {DB, SQLITE}) =>
        /\ calls = <<>>
        /\ pc \in {"idle", "dispatch", "done"}
        /\ exc = NoExc
        /\ pc = "done" =>
              /\ ret = None
              /\ shown = <<Message("error",
                   <<"SQLite files not supported directly. Please export tables to CSV.">>)>>

C4_Witness ==
    /\ pc = "done" /\ branch = "sqlite"
    /\ file.name = <<"s", ".", "S", "q", "l", "i", "t", "e">>
    /\ file_content # <<>>

\* C5: for a name whose lowercased suffix is none of the ten, a name without
\* a dot included, the call ends with None and an error naming the suffix,
\* no reader having been invoked.
C5_UnsupportedSuffixNamed ==
    (file.present /\ SuffixOf(file.name) \notin TenSuffixes) =>
        /\ calls = <<>>
        /\ pc \in {"idle", "dispatch", "done"}
        /\ pc = "done" =>
              /\ ret = None
              /\ Len(shown) >= 1
              /\ shown[1] = Message("error",
                              <<"Unsupported file format: .">> \o SuffixOf(file.name))

\* a name without a dot: the whole name is named as the suffix
C5_Witness ==
    /\ pc = "done" /\ branch = "unsupported"
    /\ file.name = <<"n", "o", "e", "x", "t">>
    /\ shown[1].text = <<"Unsupported file format: .", "n", "o", "e", "x", "t">>

\* what the last reader invocation of this call did, computed anew
LastReadOutcome ==
    LET last == calls[Len(calls)]
    IN  IF last.reader = "read_csv" THEN ReadCsv(file_content, last.enc, last.sep)
        ELSE ReadBinary(last.reader, file_content)

\* the structural reader raised on the content (a decoding fault inside the
\* csv fallback loop is not a structural failure)
ReaderRaised ==
    /\ calls # <<>>
    /\ ~LastReadOutcome.ok
    /\ ~(branch = "csv" /\ LastReadOutcome.exc.cls = "UnicodeDecodeError")

\* C6: when the reader of a supported suffix raises on the content, the call
\* ends with None and an error whose text is not empty and holds the
\* message of the exception the reader raised.
C6_ParseFailureCarriesMessage ==
    (pc = "done" /\ ReaderRaised) =>
        /\ ret = None
        /\ shown # <<>>
        /\ LET m == shown[Len(shown)]
           IN  /\ m.level = "error"
               /\ m.text # <<>>
               /\ \E i \in 1..Len(m.text) : m.text[i] # ""
               /\ LastReadOutcome.exc.msg \in Range(m.text)

\* truncated workbook bytes under the name w.xlsx
C6_Witness ==
    /\ pc = "done" /\ branch = "excel"
    /\ file_extension = XLSX /\ file_content = <<80, 75>>
    /\ ret = None
    /\ "File is not a zip file" \in Range(shown[Len(shown)].text)

\* C7: the pass applied to the table a pass returned gives that table back:
\* no column's values or declared type change.
C7_PassIdempotent == passCount >= 2 => passTable = passPrev

\* two passes done, the first of which changed the table
C7_Witness == passCount = 2 /\ passPrev # passInput

\* the branch each suffix is documented to take
ExpectedBranch(suffix) ==
    IF suffix = CSV THEN "csv"
    ELSE IF suffix \in {XLSX, XLS} THEN "excel"
    ELSE IF suffix = JSON THEN "json"
    ELSE IF suffix = PARQUET THEN "parquet"
    ELSE IF suffix = TSV THEN "tsv"
    ELSE IF suffix = TXT THEN "txt"
    ELSE IF suffix \in {DB, SQLITE} THEN "sqlite"
    ELSE IF suffix = PKL THEN "pkl"
    ELSE "unsupported"

\* C8: the branch taken is a function of the lowercased text after the final
\* '.' of the name alone: letter case and what precedes that dot do not
\* matter, and data.csv.txt goes the txt way.
C8_DispatchBySuffix ==
    branch # "none" => branch = ExpectedBranch(SuffixOf(file.name))

C8_Witness ==
    /\ branch = "csv"
    /\ file.name = <<"D", "A", "T", "A", ".", "C", "S", "V">>

DecodingFailureShown ==
    \E i \in 1..Len(shown) :
        "CSV decoding failed with all known encodings." \in Range(shown[i].text)

AllEncodingsFault == \A i \in 1..4 : ~Decode(file_content, FallbackOrder[i]).ok

\* C9: the decoding failure is shown only on the csv branch and only when
\* all four encodings raise a decoding fault on the content, and a csv call
\* on such content ends in it.
C9_DecodingFailureIff ==
    /\ DecodingFailureShown => (branch = "csv" /\ AllEncodingsFault)
    /\ (pc = "done" /\ branch = "csv" /\ AllEncodingsFault) =>
          (DecodingFailureShown /\ ret = None)

\* a csv call whose first attempt raised a decoding fault and which did not
\* end in the decoding failure, a later encoding having decoded the content
C9_Witness ==
    /\ pc = "done" /\ branch = "csv"
    /\ ~Decode(file_content, "utf-8").ok /\ ~Decode(file_content, "cp1252").ok
    /\ Len(calls) = 2
    /\ ~DecodingFailureShown

\* the separator of the text branch taken
SourceSep ==
    IF branch = "tsv" THEN TAB ELSE IF branch = "txt" THEN calls[1].sep ELSE COMMA

\* the lines of the content as text, a final line end not starting a line
SourceLines ==
    LET pieces == Split(Decode(file_content, "utf-8").text, LF)
    IN  IF pieces[Len(pieces)] = <<>> THEN SubSeq(pieces, 1, Len(pieces) - 1) ELSE pieces

FieldCount(line) == Cardinality({i \in 1..Len(line) : line[i] = SourceSep}) + 1

\* well-formed delimited text: valid UTF-8, a header line, no empty line,
\* and as many fields on every line as on the header
WellFormedText ==
    /\ Decode(file_content, "utf-8").ok
    /\ Len(SourceLines) >= 1
    /\ \A k \in 1..Len(SourceLines) :
          /\ \E i \in 1..Len(SourceLines[k]) : SourceLines[k][i] \notin {TAB, SourceSep}
          /\ FieldCount(SourceLines[k]) = FieldCount(SourceLines[1])

\* a well-formed binary file of the reader last invoked
WellFormedBinary ==
    /\ Len(file_content) = 3
    /\ SubSeq(file_content, 1, 2) = Magic(calls[1].reader)
    /\ file_content[3] \in 1..Len(LibTables)

\* C10: a well-formed file of a supported suffix, one with a header row and
\* no data rows included, loads as a Table with the column count and the
\* row count of the source.
C10_WellFormedLoads ==
    /\ (pc = "done" /\ branch \in {"csv", "tsv", "txt"} /\ WellFormedText) =>
          /\ IsTable(ret)
          /\ Len(ret.cols) = FieldCount(SourceLines[1])
          /\ ret.nrows = Len(SourceLines) - 1
    /\ (pc = "done" /\ branch \in {"excel", "json", "parquet", "pkl"} /\ WellFormedBinary) =>
          /\ IsTable(ret)
          /\ Len(ret.cols) = Len(LibTables[file_content[3]].cols)
          /\ ret.nrows = LibTables[file_content[3]].nrows

\* C11: load_data is a function of the upload alone: a second call on the
\* same upload object, straight after the first, ends as the first did, with
\* the same value returned and the same messages shown.
C11_SecondCallSameOutcome ==
    (pc = "done" /\ prev.called) => (ret = prev.ret /\ shown = prev.shown)

\* C12: the value a failed call hands back tells its caller which kind of
\* failure occurred: no one returned value stands for two kinds.
C12_FailureKindReadable ==
    \A a \in handed, b \in handed : a.ret = b.ret => a.kind = b.kind

\* the distinct values of a column, missing cells apart
DistinctValues(col) == {col.vals[i] : i \in 1..Len(col.vals)} \ {NaN}

\* C13: the pass turns a text column into a categorical one exactly when
\* its number of distinct values is strictly below half its number of rows;
\* at exactly half, or above, the column stays text.  Its cells are the same
\* either way.
C13_CategoricalBelowHalf ==
    passCount >= 1 =>
        \A c \in 1..Len(passPrev.cols) :
            LET before == passPrev.cols[c]
                after == passTable.cols[c]
            IN  before.dtype = "object" =>
                    /\ after.vals = before.vals
                    /\ after.dtype =
                          IF 2 * Cardinality(DistinctValues(before)) < Len(before.vals)
                          THEN "category"
                          ELSE "object"

\* a text column of two rows holding one distinct value, exactly half, that
\* the pass left as text
C13_Witness ==
    /\ passCount = 1
    /\ \E c \in 1..Len(passInput.cols) :
          /\ passInput.cols[c].dtype = "object"
          /\ Len(passInput.cols[c].vals) = 2
          /\ Cardinality(DistinctValues(passInput.cols[c])) = 1
          /\ passTable.cols[c].dtype = "object"

\* the narrowest signed width that holds every value of an integer column
SmallestWidth(col) ==
    LET holds(w) == \A i \in 1..Len(col.vals) : FitsWidth(col.vals[i], w)
    IN  IF holds(8) THEN 8 ELSE IF holds(16) THEN 16 ELSE IF holds(32) THEN 32 ELSE 64

\* C14: the pass leaves every integer column of at least one row with the
\* same values, in the smallest signed width among 8, 16, 32 and 64 bits
\* whose range holds the column's minimum and maximum.
C14_IntegerSmallestWidth ==
    passCount >= 1 =>
        \A c \in 1..Len(passPrev.cols) :
            LET before == passPrev.cols[c]
                after == passTable.cols[c]
            IN  (before.dtype \in {"int8", "int16", "int32", "int64"} /\ before.vals # <<>>) =>
                    /\ after.vals = before.vals
                    /\ after.dtype = IntDtype(SmallestWidth(before))

\* the separator read off raw bytes: the first of tab, semicolon and pipe
\* that occurs among them, else comma
SeparatorOfPrefix(prefix) ==
    IF \E i \in 1..Len(prefix) : prefix[i] = 9 THEN 9
    ELSE IF \E i \in 1..Len(prefix) : prefix[i] = 59 THEN 59
    ELSE IF \E i \in 1..Len(prefix) : prefix[i] = 124 THEN 124
    ELSE 44

\* C15: on the txt branch the separator is a function of the first 1024
\* bytes of the content alone, so two files with the same first 1024 bytes
\* are read with the same separator; bytes of that prefix that are not
\* valid UTF-8 are passed over, and the read is attempted whatever they are.
C15_TxtSniffsPrefixOnly ==
    branch = "txt" =>
        /\ Len(calls) = 1
        /\ calls[1].sep = SeparatorOfPrefix(Take(file_content, 1024))

\* a content whose first byte is not valid UTF-8 and whose only tab is byte
\* 1025: the read was attempted, with the comma
C15_Witness ==
    /\ branch = "txt"
    /\ Len(file_content) > 1024
    /\ file_content[1] = 233
    /\ file_content[1025] = 9
    /\ Len(calls) = 1
    /\ calls[1].sep = 44

\* C16: on the tsv branch there is exactly one read, tab-separated and in
\* the default encoding, UTF-8; when the content is not valid UTF-8 no
\* other encoding is tried and the call ends with None and the decoding
\* fault's message shown.
C16_TsvSingleAttempt ==
    branch = "tsv" =>
        /\ calls = <<[reader |-> "read_csv", enc |-> "utf-8", sep |-> 9]>>
        /\ ~Decode(file_content, "utf-8").ok =>
              /\ pc \in {"except", "done"}
              /\ exc.cls = "UnicodeDecodeError"
              /\ pc = "done" =>
                    /\ ret = None
                    /\ shown = <<Message("error", <<"Error loading file: ", exc.msg>>)>>

\* a tsv upload that is not valid UTF-8, ended in failure after its one read
C16_Witness ==
    /\ pc = "done" /\ branch = "tsv"
    /\ ~Decode(file_content, "utf-8").ok
    /\ Len(calls) = 1
    /\ ret = None /\ shown # <<>>

\* C17: a file dropped on the uploader whose name ends in a dot and one of
\* the ten suffixes csv, tsv, txt, xlsx, xls, json, parquet, pkl, db, sqlite
\* is taken by the widget and becomes the upload that main hands to
\* load_data.
C17_TenSuffixesAccepted ==
    (offered.made /\ "." \in Range(offered.name) /\ SuffixOf(offered.name) \in TenSuffixes)
        => (offered.accepted /\ file.present /\ file.name = offered.name)

\* C20: on the csv branch a read that raises anything but a decoding fault
\* is the last read: the remaining encodings are not tried, and the call
\* ends with None and that fault's message shown.
C20_CsvOtherFaultStops ==
    branch = "csv" =>
        \A i \in 1..Len(calls) :
            LET r == ReadCsv(file_content, calls[i].enc, 44)
            IN  (~r.ok /\ r.exc.cls # "UnicodeDecodeError") =>
                    /\ i = Len(calls)
                    /\ pc \in {"except", "done"}
                    /\ exc = r.exc
                    /\ pc = "done" =>
                          /\ ret = None
                          /\ shown = <<Message("error", <<"Error loading file: ", r.exc.msg>>)>>

\* a content UTF-8 cannot decode and Latin-1 can, whose rows the parser then
\* refuses: two reads, and the parser's message shown
C20_Witness ==
    /\ pc = "done" /\ branch = "csv"
    /\ Len(calls) = 2
    /\ exc.cls = "ParserError"
    /\ ret = None
    /\ shown = <<Message("error", <<"Error loading file: ", "Error tokenizing data">>)>>

\* C18: the table main passed to feature_engineering has, when the call
\* ends, the columns and the cells it had when it was passed, whatever
\* transforms and drops the runs so far applied; only the session's table
\* differs.
C18_PassedTableUnchanged == passed_df = loaded_df

\* after two button presses, a session table that kept a column of the
\* loaded table, lost another and gained one, the passed table being as it
\* was
C18_Witness ==
    /\ loaded_df # None
    /\ fe_edits = 2
    /\ \E c \in 1..Len(engineered_df.cols), d \in 1..Len(loaded_df.cols) :
          engineered_df.cols[c] = loaded_df.cols[d]
    /\ \E n \in Range(ColumnNames(loaded_df)) : n \notin Range(ColumnNames(engineered_df))
    /\ \E n \in Range(ColumnNames(engineered_df)) : n \notin Range(ColumnNames(loaded_df))
    /\ passed_df = loaded_df

\* C19: the engineered table the editor previews and offers for download
\* comes from the table of the upload loaded in this run: it has that
\* table's rows, and each of its columns named as one of that table's is
\* that column.
C19_EngineeredFromCurrentUpload ==
    (engineered_df # None /\ loaded_df # None) =>
        /\ engineered_df.nrows = loaded_df.nrows
        /\ \A c \in 1..Len(engineered_df.cols), d \in 1..Len(loaded_df.cols) :
              engineered_df.cols[c].name = loaded_df.cols[d].name
                  => engineered_df.cols[c] = loaded_df.cols[d]

\* C22: every table load_data returns is a fixed point of
\* optimize_memory_usage: the pass applied to it raises nothing and gives
\* the same table back
C22_ReturnedTableFixedPoint ==
    (pc = "done" /\ IsTable(ret)) => optimize_memory_usage(ret) = Returned(ret)

\* a table returned after the pass changed a column of what the reader gave
C22_Witness ==
    /\ pc = "done" /\ IsTable(ret)
    /\ Len(calls) > 0
    /\ \E c \in 1..Len(ret.cols) :
          ret.cols[c].dtype \in {"int8", "int16", "float32", "category"}

\* C23: the column names of the session's engineered table are pairwise
\* distinct after any sequence of feature-engineering actions on a loaded
\* table whose own column names are distinct
C23_EngineeredNamesDistinct ==
    LET distinct(t) == \A c \in 1..Len(t.cols), d \in 1..Len(t.cols) :
                          t.cols[c].name = t.cols[d].name => c = d
    IN  (engineered_df # None /\ \A t \in FeTables : distinct(t))
            => distinct(engineered_df)

\* the most recent press of Login or Logout, NoEvent when there was none
LastPress ==
    LET presses == {i \in 1..Len(events) : events[i].kind # "none"}
    IN  IF presses = {} THEN NoEvent
        ELSE events[CHOOSE i \in presses : \A j \in presses : j <= i]

\* a press of Login with an email that is a key of users and a password
\* whose hash is the one stored under it
ValidLogin(ev) ==
    /\ ev.kind = "login"
    /\ ev.email \in DOMAIN users
    /\ users[ev.email] = hashed[ev.password]

\* C21: the code of app.py is executed only in a run in which logged_in is
\* true; logged_in is true only if the most recent press of Login or Logout
\* was a Login with a known email and the password whose hash is stored; a
\* failed Login leaves logged_in and username as they were; Logout leaves
\* logged_in false
C21_LoginGate ==
    /\ app_executed => (session_state.has_logged_in /\ session_state.logged_in)
    /\ (session_state.has_logged_in /\ session_state.logged_in) => ValidLogin(LastPress)
    /\ (events # <<>> /\ events[Len(events)].kind = "login"
            /\ ~ValidLogin(events[Len(events)]))
        => /\ session_state.has_logged_in = session_before.has_logged_in
           /\ session_state.logged_in = session_before.logged_in
           /\ session_state.has_username = session_before.has_username
           /\ session_state.username = session_before.username
           /\ page.error
    /\ (events # <<>> /\ events[Len(events)].kind = "logout")
        => (session_state.has_logged_in /\ ~session_state.logged_in)

\* the tool runs after a Login that followed a failed Login and a Logout
C21_Witness ==
    /\ app_executed
    /\ session_state.logged_in
    /\ events # <<>> /\ ValidLogin(events[Len(events)])
    /\ \E i \in 1..Len(events), j \in 1..Len(events) :
          /\ i < j
          /\ events[i].kind = "login" /\ ~ValidLogin(events[i])
          /\ events[j].kind = "logout"

====
